---- MODULE Spec2Model ----
(***************************************************************************)
(* Model of the batch generation pipeline of                               *)
(* backend/app/services/batch_service.py (process_batch) together with the *)
(* Task / Subtask / Batch records of backend/app/core/task_manager.py and  *)
(* the renderer bridge of backend/app/core/pdf_engine.py (render_cv_pdf).  *)
(*                                                                         *)
(* The pipelines are asyncio coroutines on one event loop: the code        *)
(* between two suspension points runs atomically, so every action below is *)
(* one such segment.  task_manager._save_batches() is an empty coroutine   *)
(* and render_cv_html() contains no await, hence neither suspends.         *)
(* Subtasks are numbered 1..5 here (subtasks[0..4] in the source).         *)
(***************************************************************************)
EXTENDS Integers, Sequences, FiniteSets, TLC

\* Number M of Tasks of the batch (qty of create_batch).
NumTasks == 2
\* Size K of the limiter.  The source constructs asyncio.Semaphore(10); the
\* properties are stated for any K, and K < M makes whole pipelines wait.
SemaphoreSize == 1

TaskIds == 1..NumTasks

\* ---------------------------------------------------------------------
\* task_manager.py : TaskStatus, Task, Batch
\* ---------------------------------------------------------------------
PENDING == "pending"
RUNNING == "running"
GENERATING_CONTENT == "generating_content"
GENERATING_IMAGE == "generating_image"
COMPLETE == "complete"
ERROR == "error"

TaskStatus == {PENDING, RUNNING, GENERATING_CONTENT, GENERATING_IMAGE, COMPLETE, ERROR}

None == "None"

\* Task(...) as built by create_batch: status PENDING, five PENDING Subtasks.
Task ==
    [status |-> PENDING,
     profile_data |-> None,
     cv_data |-> None,
     image_path |-> None,
     pdf_path |-> None,
     html_path |-> None,
     error |-> None,
     progress |-> 0,
     subtasks |-> <<PENDING, PENDING, PENDING, PENDING, PENDING>>,
     current_subtask_index |-> 0]

\* Batch.completed / failed / in_progress / is_complete over a task map.
completed(ts) == Cardinality({t \in DOMAIN ts : ts[t].status = COMPLETE})
failed(ts) == Cardinality({t \in DOMAIN ts : ts[t].status = ERROR})
\* Variant: any() in place of all().
is_complete_any(ts) == \E t \in DOMAIN ts : ts[t].status \in {COMPLETE, ERROR}

is_complete(ts) == \A t \in DOMAIN ts : ts[t].status \in {COMPLETE, ERROR}

\* ---------------------------------------------------------------------
\* TaskManager.create_batch : resolution of the filter lists of one Task
\* ---------------------------------------------------------------------
\* str.lower() on the strings that occur in the filter lists and pools
lower(s) ==
    CASE s \in {"any", "Any", "ANY"} -> "any"
      [] s = "Male" -> "male"
      [] s = "Female" -> "female"
      [] s = "Asian" -> "asian"
      [] s = "Black" -> "black"
      [] s = "Germany" -> "germany"
      [] s = "Spain" -> "spain"
      [] s = "Software Engineer" -> "software engineer"
      [] s = "Staff Engineer" -> "staff engineer"
      [] OTHER -> s

Elems(lst) == {lst[i] : i \in DOMAIN lst}

\* _get_genders_pool / _get_ethnicities_pool / _get_origins_pool: the database
\* values with the "any" entry filtered out (two representatives each)
GendersPool == {"Male", "Female"}
EthnicitiesPool == {"Asian", "Black"}
OriginsPool == {"Germany", "Spain"}

\* roles_by_level of the roles database, one role per level
RolesByLevel ==
    [junior |-> {"Junior Developer"},
     mid |-> {"Software Engineer"},
     senior |-> {"Senior Engineer"},
     expert |-> {"Staff Engineer"}]

Levels == {"junior", "mid", "senior", "expert"}

\* level_mapping.get(expertise, ["mid"]) of get_roles_by_expertise
level_mapping(expertise) ==
    CASE expertise = "junior" -> {"junior"}
      [] expertise = "mid" -> {"junior", "mid"}
      [] expertise = "senior" -> {"mid", "senior"}
      [] expertise = "expert" -> {"senior", "expert"}
      [] expertise = "any" -> Levels
      [] OTHER -> {"mid"}

get_all_roles == UNION {RolesByLevel[l] : l \in Levels}

get_roles_by_expertise(expertise) ==
    LET matching_roles == UNION {RolesByLevel[l] : l \in level_mapping(lower(expertise))}
    IN IF matching_roles = {} THEN get_all_roles ELSE matching_roles

\* Variant: the wildcard test compares without lower().
resolve_filter_exact(lst, pool) ==
    IF lst = <<>> \/ "any" \in Elems(lst) THEN pool ELSE Elems(lst)

\* `if not xs or "any" in [x.lower() for x in xs]: random.choice(pool)
\*  else: random.choice(xs)` : the set of values random.choice may return
resolve_filter(lst, pool) ==
    IF lst = <<>> \/ "any" \in {lower(x) : x \in Elems(lst)} THEN pool ELSE Elems(lst)

\* `random.choice(expertise_levels) if expertise_levels else "mid"`
resolve_expertise(lst) == IF lst = <<>> THEN {"mid"} ELSE Elems(lst)

\* role: drawn from get_roles_by_expertise(selected_expertise) on a wildcard
resolve_role(lst, expertise) ==
    IF lst = <<>> \/ "any" \in {lower(x) : x \in Elems(lst)}
    THEN get_roles_by_expertise(expertise)
    ELSE Elems(lst)

\* filter lists a caller may send: empty, the wildcard in several letter
\* cases, a concrete value, a concrete value together with the wildcard
FilterLists(v) == {<<>>, <<"any">>, <<"Any">>, <<v>>, <<v, "ANY">>}

Requests ==
    [genders : FilterLists("Male"),
     ethnicities : FilterLists("Asian"),
     origins : FilterLists("Spain"),
     roles : FilterLists("Staff Engineer"),
     expertise_levels : FilterLists("senior")]

\* GenerationRequest / PublicGenerationRequest defaults
DefaultRequest ==
    [genders |-> <<"any">>, ethnicities |-> <<"any">>, origins |-> <<"any">>,
     roles |-> <<"any">>, expertise_levels |-> <<"any">>]

\* ---------------------------------------------------------------------
\* State
\* ---------------------------------------------------------------------
VARIABLES
    tasks,             \* the Task objects of the batch (`tasks` of process_batch, line 48)
    pc,                \* position of process_single_task(task)
    ph2,               \* position of the phase2_cv_content() child coroutine
    ph3,               \* position of the phase3_image() child coroutine
    results,           \* results of asyncio.gather: [cv, image], each "none" | "ok" | "err"
    global_semaphore,  \* free slots of global_semaphore
    calls,             \* per Task, the state of each external call (stub adapter log)
    process,           \* the out-of-process renderer started by run_pdf_subprocess
    pdf_file,          \* destination file of the renderer: "missing" | "empty" | "nonempty"
    batch_tasks,       \* ids of the Task objects currently listed in batch.tasks
    request,           \* filter lists handed to create_batch
    created,           \* the `tasks` list create_batch builds (demographic fields only)
    batches,           \* task_manager.batches : batch id -> (task number -> status)
    next_batch,        \* number of Batches created so far (ids are never reused)
    last_return,       \* what the last delete_task call returned: "True" | "False"
    lock,              \* task_manager._lock : "unlocked" | "locked"
    emitted,           \* per Task, the events handed to trigger_webhook
    adapter,           \* one call of generate_profile_data / generate_cv_content_v2
    avatar,            \* one call of generate_avatar
    webhooks,          \* webhook_registry and the trigger_webhook calls in progress
    endpoint,          \* one request to a start-batch endpoint
    regen,             \* one call of generate_pdf_from_existing_html
    rate_limiter,      \* the RateLimiter instance and the clock it reads
    cache,             \* the Cache instance and the clock it reads
    runs               \* concurrent process_batch calls, each with its own semaphore

\* State of the collaborators of the pipeline
services == <<batches, next_batch, last_return, lock, emitted, adapter, avatar,
              webhooks, endpoint>>

\* State of the utilities around the pipeline
utilities == <<regen, rate_limiter, cache, runs>>

vars == <<tasks, pc, ph2, ph3, results, global_semaphore, calls, process, pdf_file,
          batch_tasks, request, created, services, utilities>>

\* TaskManager and collaborator state that process_single_task never assigns
registry == <<batch_tasks, request, created, services, utilities>>

NoCalls ==
    [profile |-> "none", cv |-> "none", image |-> "none", krea |-> "none", mock |-> "none",
     html |-> "none", temp_html |-> "none"]

NoProcess == [st |-> "none", returncode |-> 0, marker |-> FALSE]

\* ---------------------------------------------------------------------
\* Collaborators at rest: nothing registered, no call started
\* ---------------------------------------------------------------------
\* TaskManager.__init__: self.batches = {}
NoBatches == <<>>

\* asyncio.Lock() as created by TaskManager.__init__
Unlocked == "unlocked"

\* no event was handed to trigger_webhook
NoEvents == [t \in TaskIds |-> <<>>]

AdapterIdle ==
    [fn |-> "profile", key |-> "param", model |-> "requested/model", pc |-> "idle",
     attempt |-> 0, sent |-> <<>>, responses |-> <<>>, waits |-> <<>>, switches |-> 0]

AvatarIdle ==
    [key |-> TRUE, pc |-> "idle", polls |-> 0, job |-> "none", image |-> FALSE,
     error |-> "none"]

\* webhook_registry = {} and no trigger_webhook call
WebhooksIdle == [reg |-> <<>>, call |-> <<>>, issued |-> 0]

\* the endpoints that start a Batch
Routes == {"/api/generate", "/api/public/generate"}

\* per endpoint: whether its request was answered, the Batch it created,
\* whether process_batch was handed to the background tasks, and the place
\* of that process_batch in each Task
EndpointIdle ==
    [r \in Routes |-> [answered |-> FALSE, batch |-> "none", launched |-> FALSE, run |-> <<>>]]

\* no regeneration requested
RegenIdle ==
    [t \in TaskIds |-> [html |-> "present", pc |-> "idle", process |-> NoProcess,
                        file |-> "missing"]]

\* RateLimiter(): no request recorded; `allowed` lists, per endpoint and
\* client, the times of the calls that were allowed
RateLimiterIdle == [now |-> 0, limits |-> <<>>, requests |-> <<>>, allowed |-> <<>>, last |-> "none"]

\* Cache(): empty, counters at 0; `latest` keeps per key the last set and
\* whether delete, clear or an expiry removed it; `gets` counts the get
\* calls since the last clear
CacheIdle ==
    [now |-> 0, entries |-> <<>>, hits |-> 0, misses |-> 0, latest |-> <<>>, gets |-> 0,
     last |-> "none"]

\* no process_batch call was started
RunsIdle == <<>>

UtilitiesIdle ==
    /\ regen = RegenIdle
    /\ rate_limiter = RateLimiterIdle
    /\ cache = CacheIdle
    /\ runs = RunsIdle

ServicesIdle ==
    /\ UtilitiesIdle
    /\ batches = NoBatches
    /\ next_batch = 0
    /\ last_return = None
    /\ lock = Unlocked
    /\ emitted = NoEvents
    /\ adapter = AdapterIdle
    /\ avatar = AvatarIdle
    /\ webhooks = WebhooksIdle
    /\ endpoint = EndpointIdle

\* process_batch has read batch.tasks (line 48) and no pipeline has started
PipelineIdle ==
    /\ tasks = [t \in TaskIds |-> Task]
    /\ pc = [t \in TaskIds |-> "start"]
    /\ ph2 = [t \in TaskIds |-> "idle"]
    /\ ph3 = [t \in TaskIds |-> "idle"]
    /\ results = [t \in TaskIds |-> [cv |-> "none", image |-> "none"]]
    /\ global_semaphore = SemaphoreSize
    /\ calls = [t \in TaskIds |-> NoCalls]
    /\ process = [t \in TaskIds |-> NoProcess]
    /\ pdf_file = [t \in TaskIds |-> "missing"]
    /\ batch_tasks = TaskIds
    /\ request = DefaultRequest
    /\ created = <<>>
    /\ UtilitiesIdle

pipeline_vars ==
    <<tasks, pc, ph2, ph3, results, global_semaphore, calls, process, pdf_file,
      batch_tasks, request, created, utilities>>

Init ==
    /\ tasks = [t \in TaskIds |-> Task]
    /\ pc = [t \in TaskIds |-> "start"]
    /\ ph2 = [t \in TaskIds |-> "idle"]
    /\ ph3 = [t \in TaskIds |-> "idle"]
    /\ results = [t \in TaskIds |-> [cv |-> "none", image |-> "none"]]
    /\ global_semaphore = SemaphoreSize
    /\ calls = [t \in TaskIds |-> NoCalls]
    /\ process = [t \in TaskIds |-> NoProcess]
    /\ pdf_file = [t \in TaskIds |-> "missing"]
    /\ batch_tasks = TaskIds
    /\ request = DefaultRequest
    /\ created = <<>>
    /\ ServicesIdle

\* ---------------------------------------------------------------------
\* global_semaphore : asyncio.Semaphore
\* ---------------------------------------------------------------------
\* Variant: a limiter that never blocks.
acquire_unbounded(sem) == TRUE

\* Semaphore.acquire() proceeds only while the counter is positive.
acquire_ok(sem) == sem > 0

\* ---------------------------------------------------------------------
\* process_single_task : the assignments of each segment, on one Task record
\* ---------------------------------------------------------------------
\* lines 63-65
phase1_running(tk) ==
    [tk EXCEPT !.status = RUNNING, !.current_subtask_index = 0, !.subtasks[1] = RUNNING]

\* lines 79-83
phase1_complete(tk) ==
    [tk EXCEPT !.profile_data = "profile", !.subtasks[1] = COMPLETE, !.progress = 20]

\* lines 89-94
phase1_except(tk) ==
    [tk EXCEPT !.error = "phase1_error", !.status = ERROR, !.subtasks[1] = ERROR]

\* Variant: Subtask 4 is marked RUNNING together with Subtasks 2 and 3.
phase23_running_with_assembly(tk) ==
    [tk EXCEPT !.current_subtask_index = 1, !.subtasks[2] = RUNNING,
               !.subtasks[3] = RUNNING, !.subtasks[4] = RUNNING,
               !.status = GENERATING_CONTENT]

\* lines 103-108
phase23_running(tk) ==
    [tk EXCEPT !.current_subtask_index = 1, !.subtasks[2] = RUNNING,
               !.subtasks[3] = RUNNING, !.status = GENERATING_CONTENT]

\* lines 192-197
phase2_error(tk) ==
    [tk EXCEPT !.error = "cv_error", !.status = ERROR, !.subtasks[2] = ERROR]

\* Variant: phase 2 records 5 instead of 50.
phase2_complete_low(tk) ==
    [tk EXCEPT !.cv_data = "cv", !.subtasks[2] = COMPLETE, !.progress = 5]

\* lines 199-202
phase2_complete(tk) ==
    [tk EXCEPT !.cv_data = "cv", !.subtasks[2] = COMPLETE, !.progress = 50]

\* Variant: the portrait path is stored but Subtask 3 is not marked COMPLETE.
phase3_complete_path_only(tk, path) ==
    [tk EXCEPT !.image_path = path, !.progress = 80]

\* lines 236 / 244 and 246-248
phase3_complete(tk, path) ==
    [tk EXCEPT !.image_path = path, !.subtasks[3] = COMPLETE, !.progress = 80]

\* lines 238-242
phase3_fallback_failed(tk) ==
    [tk EXCEPT !.error = "image_and_fallback_failed", !.status = ERROR, !.subtasks[3] = ERROR]

\* Variant: Subtask 5 is marked RUNNING together with Subtask 4.
phase4_running_with_pdf(tk) ==
    [tk EXCEPT !.current_subtask_index = 3, !.subtasks[4] = RUNNING,
               !.subtasks[5] = RUNNING]

\* lines 254-270
phase4_running(tk) ==
    [tk EXCEPT !.current_subtask_index = 3, !.subtasks[4] = RUNNING]

\* lines 331-336: the except clause around phases 4 and 5
phase45_except(tk) ==
    [tk EXCEPT !.error = "phase45_exception", !.status = ERROR]

\* lines 295-304
phase4_complete(tk) ==
    [tk EXCEPT !.html_path = "html", !.subtasks[4] = COMPLETE,
               !.current_subtask_index = 4, !.subtasks[5] = RUNNING]

\* Variant: the size of the destination file is not checked.
pdf_verified_exists_only(pdf_path, file) == pdf_path # None /\ file # "missing"

\* line 309: pdf_path and pdf_path.endswith('.pdf') and exists() and st_size > 0
pdf_verified(pdf_path, file) == pdf_path # None /\ file = "nonempty"

\* Variant: a rendering that fails verification ends the Task in ERROR.
phase5_finish_failing(tk, pdf_path, file) ==
    IF pdf_verified(pdf_path, file)
    THEN [tk EXCEPT !.pdf_path = pdf_path, !.subtasks[5] = COMPLETE,
                    !.status = COMPLETE, !.progress = 100]
    ELSE [tk EXCEPT !.pdf_path = None, !.subtasks[5] = ERROR, !.error = "pdf_failed",
                    !.status = ERROR, !.progress = 100]

\* lines 309-324
phase5_finish(tk, pdf_path, file) ==
    IF pdf_verified(pdf_path, file)
    THEN [tk EXCEPT !.pdf_path = pdf_path, !.subtasks[5] = COMPLETE,
                    !.status = COMPLETE, !.progress = 100]
    ELSE [tk EXCEPT !.pdf_path = None, !.subtasks[5] = ERROR, !.error = "pdf_failed",
                    !.status = COMPLETE, !.progress = 100]

\* pdf_engine.py line 240: returncode == 0 and "PDF Generation Complete" in stdout
subprocess_ok(p) == p.st = "exited" /\ p.returncode = 0 /\ p.marker

\* pdf_engine.py lines 249 / 272: the pdf_path half of render_cv_pdf's result
render_cv_pdf_result(p) == IF subprocess_ok(p) THEN "pdf" ELSE None


\* ---------------------------------------------------------------------
\* Inputs: the outcomes of the external collaborators
\* ---------------------------------------------------------------------
\* What happens inside render_cv_pdf before the renderer process is started:
\* render_cv_html for the document raises, render_cv_html for the temporary
\* renderer input raises, or both succeed and the subprocess is started.
RenderEntry == {"html_raise", "temp_html_raise", "subprocess_started"}
ReturnCodes == {0, 1}
FileStates == {"missing", "empty", "nonempty"}

\* lines 251-293 up to the suspension in run_in_executor (or the exception)
enter_render(tk, o) ==
    IF o = "subprocess_started"
    THEN phase4_running(tk)
    ELSE phase45_except(phase4_running(tk))

enter_render_calls(cl, o) ==
    [cl EXCEPT !.html = IF o = "html_raise" THEN "fail" ELSE "ok",
               !.temp_html = CASE o = "html_raise" -> "none"
                               [] o = "temp_html_raise" -> "fail"
                               [] OTHER -> "ok"]

enter_render_pc(o) == IF o = "subprocess_started" THEN "pdf_subprocess" ELSE "done"

enter_render_process(p, o) ==
    IF o = "subprocess_started" THEN [p EXCEPT !.st = "running"] ELSE p

\* ---------------------------------------------------------------------
\* Actions of process_single_task(task), one per segment between awaits
\* ---------------------------------------------------------------------
\* lines 61-69: enter `async with global_semaphore`, mark RUNNING, call generate_profile_data
Phase1Begin(t) ==
    /\ pc[t] = "start"
    /\ acquire_ok(global_semaphore)
    /\ global_semaphore' = global_semaphore - 1
    /\ tasks' = [tasks EXCEPT ![t] = phase1_running(@)]
    /\ calls' = [calls EXCEPT ![t].profile = "inflight"]
    /\ pc' = [pc EXCEPT ![t] = "profile_call"]
    /\ UNCHANGED <<ph2, ph3, results, process, pdf_file, registry>>

\* lines 79-84, leave the semaphore block, lines 100-109 and the start of gather (173)
Phase1Return(t) ==
    /\ pc[t] = "profile_call"
    /\ global_semaphore' = global_semaphore + 1
    /\ tasks' = [tasks EXCEPT ![t] = phase23_running(phase1_complete(@))]
    /\ calls' = [calls EXCEPT ![t].profile = "ok"]
    /\ pc' = [pc EXCEPT ![t] = "gather"]
    /\ ph2' = [ph2 EXCEPT ![t] = "acquire"]
    /\ ph3' = [ph3 EXCEPT ![t] = "acquire"]
    /\ UNCHANGED <<results, process, pdf_file, registry>>

\* Variant: the except clause of phase 1 does not return.
Phase1RaiseContinue(t) ==
    /\ pc[t] = "profile_call"
    /\ global_semaphore' = global_semaphore + 1
    /\ tasks' = [tasks EXCEPT ![t] = phase23_running(phase1_except(@))]
    /\ calls' = [calls EXCEPT ![t].profile = "fail"]
    /\ pc' = [pc EXCEPT ![t] = "gather"]
    /\ ph2' = [ph2 EXCEPT ![t] = "acquire"]
    /\ ph3' = [ph3 EXCEPT ![t] = "acquire"]
    /\ UNCHANGED <<results, process, pdf_file, registry>>

\* lines 89-94: generate_profile_data raised; the semaphore block is left by return
Phase1Raise(t) ==
    /\ pc[t] = "profile_call"
    /\ global_semaphore' = global_semaphore + 1
    /\ tasks' = [tasks EXCEPT ![t] = phase1_except(@)]
    /\ calls' = [calls EXCEPT ![t].profile = "fail"]
    /\ pc' = [pc EXCEPT ![t] = "done"]
    /\ UNCHANGED <<ph2, ph3, results, process, pdf_file, registry>>

\* lines 113-115: phase2_cv_content acquires a slot and calls generate_cv_content_v2
Phase2Begin(t) ==
    /\ ph2[t] = "acquire"
    /\ acquire_ok(global_semaphore)
    /\ global_semaphore' = global_semaphore - 1
    /\ calls' = [calls EXCEPT ![t].cv = "inflight"]
    /\ ph2' = [ph2 EXCEPT ![t] = "call"]
    /\ UNCHANGED <<tasks, pc, ph3, results, process, pdf_file, registry>>

\* lines 129-139: return cv_data, None
Phase2Return(t) ==
    /\ ph2[t] = "call"
    /\ global_semaphore' = global_semaphore + 1
    /\ calls' = [calls EXCEPT ![t].cv = "ok"]
    /\ results' = [results EXCEPT ![t].cv = "ok"]
    /\ ph2' = [ph2 EXCEPT ![t] = "done"]
    /\ UNCHANGED <<tasks, pc, ph3, process, pdf_file, registry>>

\* Variant: the slot is not released when generate_cv_content_v2 raises.
Phase2RaiseLeak(t) ==
    /\ ph2[t] = "call"
    /\ calls' = [calls EXCEPT ![t].cv = "fail"]
    /\ results' = [results EXCEPT ![t].cv = "err"]
    /\ ph2' = [ph2 EXCEPT ![t] = "done"]
    /\ UNCHANGED <<tasks, pc, ph3, global_semaphore, process, pdf_file, registry>>

\* lines 141-142: return None, str(e)
Phase2Raise(t) ==
    /\ ph2[t] = "call"
    /\ global_semaphore' = global_semaphore + 1
    /\ calls' = [calls EXCEPT ![t].cv = "fail"]
    /\ results' = [results EXCEPT ![t].cv = "err"]
    /\ ph2' = [ph2 EXCEPT ![t] = "done"]
    /\ UNCHANGED <<tasks, pc, ph3, process, pdf_file, registry>>

\* krea_service.py 331-339: the keyword parameters generate_avatar declares
generate_avatar_parameters ==
    {"gender", "ethnicity", "age_range", "origin", "role", "model", "filename"}

\* batch_service.py 147-157: the keywords phase3_image passes to generate_avatar
phase3_image_keywords ==
    {"gender", "ethnicity", "age_range", "origin", "role", "model", "filename", "api_key"}

\* A call binds its keywords to the declared parameters; a keyword the callee
\* does not declare raises TypeError at the call, before the callee's body runs.
call_binds(keywords, parameters) == keywords \subseteq parameters

\* What the portrait service would do with a job: complete it or fail
PortraitService == {"completes", "fails"}

\* batch_service.py 147-170: the value phase3_image returns
generate_avatar_result(keywords, service) ==
    IF call_binds(keywords, generate_avatar_parameters) /\ service = "completes"
    THEN "ok"
    ELSE "err"

\* Variant: the slot taken by phase3_image is not given back.
phase3_image_leak(t) ==
    /\ ph3[t] = "acquire"
    /\ acquire_ok(global_semaphore)
    /\ ~call_binds(phase3_image_keywords, generate_avatar_parameters)
    /\ global_semaphore' = global_semaphore - 1
    /\ \E service \in PortraitService :
        /\ calls' = [calls EXCEPT ![t].image = "fail", ![t].krea = service]
        /\ results' = [results EXCEPT
                          ![t].image = generate_avatar_result(phase3_image_keywords, service)]
    /\ ph3' = [ph3 EXCEPT ![t] = "done"]
    /\ UNCHANGED <<tasks, pc, ph2, process, pdf_file, registry>>

\* lines 143-170: phase3_image takes a slot; the call of lines 147-157 passes
\* api_key, which generate_avatar does not declare, so TypeError is raised at
\* the call, the except clause returns (None, str(e)) and the slot is given
\* back, all without a suspension point
phase3_image(t) ==
    /\ ph3[t] = "acquire"
    /\ acquire_ok(global_semaphore)
    /\ ~call_binds(phase3_image_keywords, generate_avatar_parameters)
    /\ \E service \in PortraitService :
        /\ calls' = [calls EXCEPT ![t].image = "fail", ![t].krea = service]
        /\ results' = [results EXCEPT
                          ![t].image = generate_avatar_result(phase3_image_keywords, service)]
    /\ ph3' = [ph3 EXCEPT ![t] = "done"]
    /\ UNCHANGED <<tasks, pc, ph2, global_semaphore, process, pdf_file, registry>>

\* asyncio.gather (173-177) returns once both children are done
gather_done(t) == pc[t] = "gather" /\ ph2[t] = "done" /\ ph3[t] = "done"

\* Variant: the content error branch does not return and goes on to render_cv_pdf.
JoinContentErrorContinue(t) ==
    /\ gather_done(t)
    /\ results[t].cv = "err"
    /\ tasks' = [tasks EXCEPT ![t] = enter_render(phase2_error(@), "subprocess_started")]
    /\ calls' = [calls EXCEPT ![t] = enter_render_calls(@, "subprocess_started")]
    /\ pc' = [pc EXCEPT ![t] = "pdf_subprocess"]
    /\ process' = [process EXCEPT ![t] = enter_render_process(@, "subprocess_started")]
    /\ UNCHANGED <<ph2, ph3, results, global_semaphore, pdf_file, registry>>

\* lines 191-197: the content call failed
JoinContentError(t) ==
    /\ gather_done(t)
    /\ results[t].cv = "err"
    /\ tasks' = [tasks EXCEPT ![t] = phase2_error(@)]
    /\ pc' = [pc EXCEPT ![t] = "done"]
    /\ UNCHANGED <<ph2, ph3, results, global_semaphore, calls, process, pdf_file, registry>>

\* lines 199-202 and 226-232: content ok, portrait failed, _generate_mock_avatar is called
JoinFallback(t) ==
    /\ gather_done(t)
    /\ results[t].cv = "ok"
    /\ results[t].image = "err"
    /\ tasks' = [tasks EXCEPT ![t] = phase2_complete(@)]
    /\ calls' = [calls EXCEPT ![t].mock = "inflight"]
    /\ pc' = [pc EXCEPT ![t] = "mock_call"]
    /\ UNCHANGED <<ph2, ph3, results, global_semaphore, process, pdf_file, registry>>

\* lines 236-237, 246-249 and 253-293: the placeholder was produced, render_cv_pdf is entered
MockReturn(t) ==
    /\ pc[t] = "mock_call"
    /\ \E o \in RenderEntry :
        /\ tasks' = [tasks EXCEPT ![t] = enter_render(phase3_complete(@, "mock"), o)]
        /\ calls' = [calls EXCEPT ![t] = enter_render_calls([@ EXCEPT !.mock = "ok"], o)]
        /\ pc' = [pc EXCEPT ![t] = enter_render_pc(o)]
        /\ process' = [process EXCEPT ![t] = enter_render_process(@, o)]
    /\ UNCHANGED <<ph2, ph3, results, global_semaphore, pdf_file, registry>>

\* Variant: a Task whose fallback fails marks every Task of the batch as failed.
MockRaiseBatch(t) ==
    /\ pc[t] = "mock_call"
    /\ tasks' = [u \in TaskIds |-> phase3_fallback_failed(tasks[u])]
    /\ calls' = [calls EXCEPT ![t].mock = "fail"]
    /\ pc' = [pc EXCEPT ![t] = "done"]
    /\ UNCHANGED <<ph2, ph3, results, global_semaphore, process, pdf_file, registry>>

\* lines 238-242: _generate_mock_avatar raised
MockRaise(t) ==
    /\ pc[t] = "mock_call"
    /\ tasks' = [tasks EXCEPT ![t] = phase3_fallback_failed(@)]
    /\ calls' = [calls EXCEPT ![t].mock = "fail"]
    /\ pc' = [pc EXCEPT ![t] = "done"]
    /\ UNCHANGED <<ph2, ph3, results, global_semaphore, process, pdf_file, registry>>

\* pdf_engine 234-272 then batch_service 295-325: the renderer process exited
SubprocessExit(t) ==
    /\ pc[t] = "pdf_subprocess"
    /\ \E rc \in ReturnCodes, m \in BOOLEAN, f \in FileStates :
        LET p == [st |-> "exited", returncode |-> rc, marker |-> m] IN
        /\ process' = [process EXCEPT ![t] = p]
        /\ pdf_file' = [pdf_file EXCEPT ![t] = f]
        /\ tasks' = [tasks EXCEPT ![t] =
                        phase5_finish(phase4_complete(@), render_cv_pdf_result(p), f)]
    /\ pc' = [pc EXCEPT ![t] = "done"]
    /\ UNCHANGED <<ph2, ph3, results, global_semaphore, calls, registry>>

\* Variant: after a timeout the Task is finished but the renderer is awaited again.
SubprocessTimeoutRetry(t) ==
    /\ pc[t] = "pdf_subprocess"
    /\ \E f \in FileStates :
        LET p == [st |-> "timeout", returncode |-> 1, marker |-> FALSE] IN
        /\ process' = [process EXCEPT ![t] = p]
        /\ pdf_file' = [pdf_file EXCEPT ![t] = f]
        /\ tasks' = [tasks EXCEPT ![t] =
                        phase5_finish(phase4_complete(@), render_cv_pdf_result(p), f)]
    /\ UNCHANGED <<pc, ph2, ph3, results, global_semaphore, calls, registry>>

\* pdf_engine 227-232, 253-272 then batch_service 295-325: subprocess.run timed out
SubprocessTimeout(t) ==
    /\ pc[t] = "pdf_subprocess"
    /\ \E f \in FileStates :
        LET p == [st |-> "timeout", returncode |-> 1, marker |-> FALSE] IN
        /\ process' = [process EXCEPT ![t] = p]
        /\ pdf_file' = [pdf_file EXCEPT ![t] = f]
        /\ tasks' = [tasks EXCEPT ![t] =
                        phase5_finish(phase4_complete(@), render_cv_pdf_result(p), f)]
    /\ pc' = [pc EXCEPT ![t] = "done"]
    /\ UNCHANGED <<ph2, ph3, results, global_semaphore, calls, registry>>

\* line 340: asyncio.gather over process_single_task(t) for every Task
Next ==
    \/ \E t \in TaskIds : Phase1Begin(t)
    \/ \E t \in TaskIds : Phase1Return(t)
    \/ \E t \in TaskIds : Phase1Raise(t)
    \/ \E t \in TaskIds : Phase2Begin(t)
    \/ \E t \in TaskIds : Phase2Return(t)
    \/ \E t \in TaskIds : Phase2Raise(t)
    \/ \E t \in TaskIds : phase3_image(t)
    \/ \E t \in TaskIds : JoinContentError(t)
    \/ \E t \in TaskIds : JoinFallback(t)
    \/ \E t \in TaskIds : MockReturn(t)
    \/ \E t \in TaskIds : MockRaise(t)
    \/ \E t \in TaskIds : SubprocessExit(t)
    \/ \E t \in TaskIds : SubprocessTimeout(t)

Spec == Init /\ [][Next]_vars

\* ---------------------------------------------------------------------
\* Scheduling: the event loop runs every ready coroutine, and every external
\* call eventually returns or raises
\* ---------------------------------------------------------------------
Step(t) ==
    \/ Phase1Begin(t) \/ Phase1Return(t) \/ Phase1Raise(t)
    \/ Phase2Begin(t) \/ Phase2Return(t) \/ Phase2Raise(t)
    \/ phase3_image(t)
    \/ JoinContentError(t) \/ JoinFallback(t)
    \/ MockReturn(t) \/ MockRaise(t)
    \/ SubprocessExit(t) \/ SubprocessTimeout(t)

FairSpec == Spec /\ \A t \in TaskIds : WF_vars(Step(t))

\* ---------------------------------------------------------------------
\* The limiter with one slot and with more than one slot side by side
\* ---------------------------------------------------------------------
\* Init with asyncio.Semaphore(K) for K = SemaphoreSize and K = SemaphoreSize + 1
InitLimiter ==
    /\ tasks = [t \in TaskIds |-> Task]
    /\ pc = [t \in TaskIds |-> "start"]
    /\ ph2 = [t \in TaskIds |-> "idle"]
    /\ ph3 = [t \in TaskIds |-> "idle"]
    /\ results = [t \in TaskIds |-> [cv |-> "none", image |-> "none"]]
    /\ global_semaphore \in {SemaphoreSize, SemaphoreSize + 1}
    /\ calls = [t \in TaskIds |-> NoCalls]
    /\ process = [t \in TaskIds |-> NoProcess]
    /\ pdf_file = [t \in TaskIds |-> "missing"]
    /\ batch_tasks = TaskIds
    /\ request = DefaultRequest
    /\ created = <<>>
    /\ ServicesIdle

\* lines 61-177: the segments of process_single_task up to the join of
\* asyncio.gather; the later phases take no slot and start no adapter call
GatherStep(t) ==
    \/ Phase1Begin(t) \/ Phase1Return(t) \/ Phase1Raise(t)
    \/ Phase2Begin(t) \/ Phase2Return(t) \/ Phase2Raise(t)
    \/ phase3_image(t)

GatherNext ==
    \/ \E t \in TaskIds : Phase1Begin(t)
    \/ \E t \in TaskIds : Phase1Return(t)
    \/ \E t \in TaskIds : Phase1Raise(t)
    \/ \E t \in TaskIds : Phase2Begin(t)
    \/ \E t \in TaskIds : Phase2Return(t)
    \/ \E t \in TaskIds : Phase2Raise(t)
    \/ \E t \in TaskIds : phase3_image(t)

LimiterSpec ==
    InitLimiter /\ [][GatherNext]_vars /\ \A t \in TaskIds : WF_vars(GatherStep(t))

\* ---------------------------------------------------------------------
\* TaskManager.delete_task, called by DELETE /task/{task_id} while the
\* pipelines run: the Task leaves batch.tasks, its coroutine is not touched
\* ---------------------------------------------------------------------
\* (an id that is in no Batch changes nothing and returns False)
delete_task(task_id) ==
    /\ task_id \in batch_tasks
    /\ batch_tasks' = batch_tasks \ {task_id}
    /\ UNCHANGED <<tasks, pc, ph2, ph3, results, global_semaphore, calls, process,
                   pdf_file, request, created, services, utilities>>

DeleteNext ==
    \/ Next
    \/ \E task_id \in TaskIds : delete_task(task_id)

DeleteSpec == Init /\ [][DeleteNext]_vars

\* The Batch as a status query sees it: the Tasks listed in batch.tasks
BatchView == [t \in batch_tasks |-> tasks[t]]

\* Batch.total
total(ts) == Cardinality(DOMAIN ts)

\* ---------------------------------------------------------------------
\* TaskManager.create_batch on every request of Requests (one iteration of
\* its `for i in range(qty)` loop; the iterations are independent)
\* ---------------------------------------------------------------------
InitCreate ==
    /\ tasks = [t \in TaskIds |-> Task]
    /\ pc = [t \in TaskIds |-> "start"]
    /\ ph2 = [t \in TaskIds |-> "idle"]
    /\ ph3 = [t \in TaskIds |-> "idle"]
    /\ results = [t \in TaskIds |-> [cv |-> "none", image |-> "none"]]
    /\ global_semaphore = SemaphoreSize
    /\ calls = [t \in TaskIds |-> NoCalls]
    /\ process = [t \in TaskIds |-> NoProcess]
    /\ pdf_file = [t \in TaskIds |-> "missing"]
    /\ batch_tasks = TaskIds
    /\ request \in Requests
    /\ created = <<>>
    /\ ServicesIdle

create_batch ==
    /\ created = <<>>
    /\ \E selected_gender \in resolve_filter(request.genders, GendersPool),
          selected_ethnicity \in resolve_filter(request.ethnicities, EthnicitiesPool),
          selected_origin \in resolve_filter(request.origins, OriginsPool),
          selected_expertise \in resolve_expertise(request.expertise_levels) :
        \E selected_role \in resolve_role(request.roles, selected_expertise) :
            created' = Append(created,
                              [status |-> PENDING,
                               role |-> selected_role,
                               origin |-> selected_origin,
                               gender |-> selected_gender,
                               ethnicity |-> selected_ethnicity,
                               expertise |-> selected_expertise,
                               progress |-> 0])
    /\ UNCHANGED <<tasks, pc, ph2, ph3, results, global_semaphore, calls, process,
                   pdf_file, batch_tasks, request, services, utilities>>

CreateNext == create_batch

CreateSpec == InitCreate /\ [][CreateNext]_vars

\* ---------------------------------------------------------------------
\* TaskManager.batches with several Batches: create_batch, the status writes
\* of a pipeline, delete_task and clear_batches.  A Task is named by the
\* pair <<batch id, number>>; of a Task only the status is kept here.
\* ---------------------------------------------------------------------
MaxQty == 2

\* the ids create_batch hands out (`str(uuid.uuid4())[:8]`), in order of creation
BatchIdSeq == <<"b1", "b2">>
BatchIds == {BatchIdSeq[n] : n \in DOMAIN BatchIdSeq}
RegistryTaskIds == BatchIds \X (1..MaxQty)

InitRegistry ==
    /\ PipelineIdle
    /\ batches = NoBatches
    /\ next_batch = 0
    /\ last_return = None
    /\ lock = Unlocked
    /\ emitted = NoEvents
    /\ adapter = AdapterIdle
    /\ avatar = AvatarIdle
    /\ webhooks = WebhooksIdle
    /\ endpoint = EndpointIdle

\* statuses of the Tasks of one Batch, as Batch.is_complete reads them
StatusView(b) == [i \in DOMAIN b |-> [status |-> b[i]]]

\* create_batch: self.batches[batch_id] = Batch(tasks) with qty PENDING Tasks
register_batch(qty) ==
    /\ next_batch < Len(BatchIdSeq)
    /\ next_batch' = next_batch + 1
    /\ batches' = [b \in DOMAIN batches \cup {BatchIdSeq[next_batch + 1]} |->
                      IF b = BatchIdSeq[next_batch + 1]
                      THEN [i \in 1..qty |-> PENDING]
                      ELSE batches[b]]
    /\ UNCHANGED <<pipeline_vars, last_return, lock, emitted, adapter, avatar,
                   webhooks, endpoint>>

\* the status process_single_task writes next into a Task
\* (batch_service 63, 91, 108, 186-240, 322, 333)
next_status(st) ==
    CASE st = PENDING -> {RUNNING}
      [] st = RUNNING -> {GENERATING_CONTENT, ERROR}
      [] st = GENERATING_CONTENT -> {COMPLETE, ERROR}
      [] OTHER -> {}

write_status(b, i) ==
    /\ b \in DOMAIN batches
    /\ i \in DOMAIN batches[b]
    /\ \E st \in next_status(batches[b][i]) :
          batches' = [batches EXCEPT ![b][i] = st]
    /\ UNCHANGED <<pipeline_vars, next_batch, last_return, lock, emitted, adapter,
                   avatar, webhooks, endpoint>>

\* `batch.tasks = [t for t in batch.tasks if t.id != task_id]`
without_task(b, i) == [j \in DOMAIN b \ {i} |-> b[j]]

\* the registry after delete_task found the Task (task_manager.py 306-308)
delete_task_found(bs, id) == [bs EXCEPT ![id[1]] = without_task(@, id[2])]

\* TaskManager.delete_task(task_id) with its return value
registry_delete_task(id) ==
    /\ IF id[1] \in DOMAIN batches /\ id[2] \in DOMAIN batches[id[1]]
       THEN /\ batches' = delete_task_found(batches, id)
            /\ last_return' = "True"
       ELSE /\ batches' = batches
            /\ last_return' = "False"
    /\ UNCHANGED <<pipeline_vars, next_batch, lock, emitted, adapter, avatar,
                   webhooks, endpoint>>

\* Variant: clear_batches empties the registry.
clear_all_batches(bs) == [b \in {} |-> bs[b]]

\* `{k: v for k, v in self.batches.items() if not v.is_complete}`
clear_completed(bs) ==
    [b \in {k \in DOMAIN bs : ~is_complete(StatusView(bs[k]))} |-> bs[b]]

clear_batches ==
    /\ batches' = clear_completed(batches)
    /\ UNCHANGED <<pipeline_vars, next_batch, last_return, lock, emitted, adapter,
                   avatar, webhooks, endpoint>>

RegistryNext ==
    \/ \E qty \in 0..MaxQty : register_batch(qty)
    \/ \E id \in RegistryTaskIds : write_status(id[1], id[2])
    \/ \E id \in RegistryTaskIds : registry_delete_task(id)
    \/ clear_batches

RegistrySpec == InitRegistry /\ [][RegistryNext]_vars

\* ---------------------------------------------------------------------
\* llm_service: one call of generate_profile_data ("profile") or of
\* generate_cv_content_v2 ("cv") with its retry loop.
\*   adapter.key  : "param"   the api_key parameter carries the key
\*                  "env"     api_key is None, OPENROUTER_API_KEY is set
\*                  "missing" neither
\*   adapter.pc   : "idle" | "attempt" | "awaiting" | "sleeping"
\*                  | "returned" | "returned_none" | "raised"
\* ---------------------------------------------------------------------
max_retries == 3

fallback_model == "google/gemini-2.0-flash-exp:free"

Models == {"requested/model", fallback_model}

\* the text of a 200 answer: a JSON object, one inside a code fence or
\* commentary, one whose closing brace is missing, or no JSON at all
Contents == {"json", "fenced", "truncated", "garbage"}

\* what the content service answers to one request; status 0 stands for
\* client.post raising instead of answering
Responses ==
    {[status |-> 200, content |-> c] : c \in Contents}
        \cup {[status |-> s, content |-> "none"] : s \in {0, 401, 403, 404, 429, 500}}

\* strips <think> blocks and fences and cuts to the outermost braces
clean_json_response(content) == IF content = "fenced" THEN "json" ELSE content

\* generate_profile_data only: `content += "}"` when the text starts with
\* "{" and does not end with "}"
append_brace(content) == IF content = "truncated" THEN "json" ELSE content

\* json.loads succeeds
loads_ok(content) == content = "json"

\* the statement after `for attempt in range(max_retries)`: none in
\* generate_profile_data, `raise RuntimeError` in generate_cv_content_v2
loop_exit(a) ==
    IF a.fn = "profile" THEN [a EXCEPT !.pc = "returned_none"] ELSE [a EXCEPT !.pc = "raised"]

\* `continue`, or the end of the loop body
continue_loop(a) ==
    IF a.attempt + 1 < max_retries
    THEN [a EXCEPT !.attempt = @ + 1, !.pc = "attempt"]
    ELSE loop_exit(a)

\* Variant: an exception is re-raised on every attempt.
except_exception_no_retry(a) == [a EXCEPT !.pc = "raised"]

\* `except Exception` and `except json.JSONDecodeError` of the loop body
except_exception(a) ==
    IF a.attempt = max_retries - 1 THEN [a EXCEPT !.pc = "raised"] ELSE continue_loop(a)

\* `await asyncio.sleep(secs)` followed by `continue`
sleep(a, secs) == [a EXCEPT !.pc = "sleeping", !.waits = Append(@, secs)]

switch_model(a) == [a EXCEPT !.model = fallback_model, !.switches = @ + 1]

\* generate_profile_data, lines 709-779
profile_response(a, r) ==
    CASE r.status = 0 -> except_exception(a)
      [] r.status = 200 ->
            IF loads_ok(clean_json_response(r.content))
                 \/ loads_ok(append_brace(clean_json_response(r.content)))
            THEN [a EXCEPT !.pc = "returned"]
            ELSE except_exception(a)
      [] r.status \in {403, 404} -> sleep(switch_model(a), 1)
      [] r.status = 429 -> sleep(a, 2^(a.attempt) + 1)
      [] OTHER ->
            IF a.attempt = max_retries - 1
            THEN IF a.model # fallback_model
                 THEN continue_loop(switch_model(a))
                 ELSE except_exception(a)
            ELSE continue_loop(a)

\* generate_cv_content_v2, lines 962-1008
cv_response(a, r) ==
    CASE r.status = 0 -> except_exception(a)
      [] r.status = 200 ->
            IF loads_ok(clean_json_response(r.content))
            THEN [a EXCEPT !.pc = "returned"]
            ELSE except_exception(a)
      [] r.status = 429 -> sleep(a, 2^(a.attempt) + 1)
      [] OTHER -> except_exception(a)

InitAdapter ==
    /\ PipelineIdle
    /\ batches = NoBatches
    /\ next_batch = 0
    /\ last_return = None
    /\ lock = Unlocked
    /\ emitted = NoEvents
    /\ adapter \in {[AdapterIdle EXCEPT !.fn = f, !.key = k, !.model = m] :
                      f \in {"profile", "cv"}, k \in {"param", "env", "missing"}, m \in Models}
    /\ avatar = AvatarIdle
    /\ webhooks = WebhooksIdle
    /\ endpoint = EndpointIdle

adapter_frame ==
    UNCHANGED <<pipeline_vars, batches, next_batch, last_return, lock, emitted, avatar,
                webhooks, endpoint>>

\* Variant: a call without credentials goes on to its first attempt.
key_check_skipped(a) == [a EXCEPT !.pc = "attempt"]

\* lines 671-673 and 865-875
key_check(a) ==
    IF a.key = "missing" THEN [a EXCEPT !.pc = "raised"] ELSE [a EXCEPT !.pc = "attempt"]

\* the call is entered; generate_profile_data is entered by phase 1 of Task 1
adapter_enter ==
    /\ adapter.pc = "idle"
    /\ adapter.fn = "profile" => pc[1] = "profile_call"
    /\ adapter' = key_check(adapter)
    /\ adapter_frame

\* one pass of the loop body up to `await client.post(...)`; in
\* generate_cv_content_v2 line 934 slices the api_key parameter, which
\* raises TypeError when the key came from the environment
adapter_send ==
    /\ adapter.pc = "attempt"
    /\ adapter' = IF adapter.fn = "cv" /\ adapter.key = "env"
                  THEN except_exception(adapter)
                  ELSE [adapter EXCEPT !.pc = "awaiting", !.sent = Append(@, adapter.model)]
    /\ adapter_frame

adapter_response(r) ==
    /\ adapter.pc = "awaiting"
    /\ adapter' = IF adapter.fn = "profile"
                  THEN profile_response([adapter EXCEPT !.responses = Append(@, r)], r)
                  ELSE cv_response([adapter EXCEPT !.responses = Append(@, r)], r)
    /\ adapter_frame

\* asyncio.sleep returns
adapter_wake ==
    /\ adapter.pc = "sleeping"
    /\ adapter' = continue_loop(adapter)
    /\ adapter_frame

AdapterNext ==
    \/ adapter.fn = "profile" /\ Phase1Begin(1)
    \/ adapter_enter
    \/ adapter_send
    \/ \E r \in Responses : adapter_response(r)
    \/ adapter_wake
    \/ adapter.fn = "profile" /\ adapter.pc = "returned" /\ Phase1Return(1)
    \/ adapter.fn = "profile" /\ adapter.pc \in {"raised", "returned_none"} /\ Phase1Raise(1)

AdapterSpec == InitAdapter /\ [][AdapterNext]_vars

\* ---------------------------------------------------------------------
\* krea_service.generate_avatar: one call.
\*   avatar.pc    : "idle" | "creating" | "sleeping" | "polling"
\*                  | "downloading" | "returned" | "raised"
\*   avatar.polls : status requests sent so far
\*   avatar.job   : what the last status request answered
\* ---------------------------------------------------------------------
max_polls == 30

\* answers to the request that creates the job (lines 418-441)
CreateAnswers == {"job_id", "no_job_id", "http_error", "exception"}

\* answers to one status request (lines 462-493)
JobAnswers == {"http_error", "pending", "completed", "completed_no_urls", "failed", "exception"}

\* answers to the download of the image (lines 479-490)
DownloadAnswers == {"image", "http_error", "exception"}

avatar_raise(a, e) == [a EXCEPT !.pc = "raised", !.error = e]

\* Variant: the poll loop has no upper limit.
next_poll_unbounded(a) == [a EXCEPT !.pc = "sleeping"]

\* the next pass of `for poll_num in range(max_polls)`, or the timeout after it
next_poll(a) ==
    IF a.polls < max_polls THEN [a EXCEPT !.pc = "sleeping"] ELSE avatar_raise(a, "timeout")

InitAvatar ==
    /\ PipelineIdle
    /\ batches = NoBatches
    /\ next_batch = 0
    /\ last_return = None
    /\ lock = Unlocked
    /\ emitted = NoEvents
    /\ adapter = AdapterIdle
    /\ avatar \in {[AvatarIdle EXCEPT !.key = k] : k \in BOOLEAN}
    /\ webhooks = WebhooksIdle
    /\ endpoint = EndpointIdle

avatar_frame ==
    UNCHANGED <<pipeline_vars, batches, next_batch, last_return, lock, emitted, adapter,
                webhooks, endpoint>>

\* lines 350-356 and the creation request of lines 418-431
avatar_enter ==
    /\ avatar.pc = "idle"
    /\ avatar' = IF avatar.key THEN [avatar EXCEPT !.pc = "creating"]
                 ELSE avatar_raise(avatar, "not_configured")
    /\ avatar_frame

\* lines 433-441 and the first pass of the poll loop up to asyncio.sleep(2)
avatar_created(r) ==
    /\ avatar.pc = "creating"
    /\ avatar' = IF r = "job_id" THEN next_poll(avatar) ELSE avatar_raise(avatar, r)
    /\ avatar_frame

\* lines 460-465: the sleep ends, the status request is sent
avatar_poll ==
    /\ avatar.pc = "sleeping"
    /\ avatar' = [avatar EXCEPT !.pc = "polling", !.polls = @ + 1]
    /\ avatar_frame

\* lines 467-493
avatar_job(r) ==
    /\ avatar.pc = "polling"
    /\ avatar' =
          CASE r \in {"http_error", "pending", "completed_no_urls"} ->
                   next_poll([avatar EXCEPT !.job = r])
            [] r = "completed" -> [avatar EXCEPT !.job = r, !.pc = "downloading"]
            [] OTHER -> avatar_raise([avatar EXCEPT !.job = r], r)
    /\ avatar_frame

\* lines 479-490
avatar_download(r) ==
    /\ avatar.pc = "downloading"
    /\ avatar' =
          CASE r = "image" -> [avatar EXCEPT !.pc = "returned", !.image = TRUE]
            [] r = "http_error" -> next_poll(avatar)
            [] OTHER -> avatar_raise(avatar, r)
    /\ avatar_frame

AvatarNext ==
    \/ avatar_enter
    \/ \E r \in CreateAnswers : avatar_created(r)
    \/ avatar_poll
    \/ \E r \in JobAnswers : avatar_job(r)
    \/ \E r \in DownloadAnswers : avatar_download(r)

\* every request of the call is answered or times out (httpx timeout=120.0)
AvatarSpec == InitAvatar /\ [][AvatarNext]_vars /\ WF_vars(AvatarNext)

\* ---------------------------------------------------------------------
\* routers/webhooks.py: webhook_registry and concurrent calls of
\* trigger_webhook(event_type, payload).
\*   webhooks.reg[w]  : enabled, events, failure_count of registration w,
\*                      and two observations of its endpoint: `log`, the
\*                      outcomes of the finished deliveries in the order in
\*                      which they finished, and `late`, whether an event
\*                      reached it while enabled was false
\*   webhooks.call[c] : pc "idle" | "posting" (request under way) |
\*                      "sent" (request reached the endpoint); the event;
\*                      `at`, the position of the loop in the registry
\*   webhooks.issued  : calls of trigger_webhook made so far
\* ---------------------------------------------------------------------
MaxEvents == 6

\* Last reading of the clock (time.time(), datetime.now()) in a run
MaxTime == 3

\* Cache.get calls between two Cache.clear calls
MaxGets == 3

\* `if webhook_data["failure_count"] >= 5`
disable_threshold == 5

\* webhook_registry.items() iterates in the order of registration
WebhookOrder == <<"w1", "w2">>
WebhookIds == {WebhookOrder[n] : n \in DOMAIN WebhookOrder}

Callers == {"c1", "c2"}

EventTypes == {"generation.failed", "batch.complete"}

\* register_webhook(config): WebhookConfig.events as sent by the client
Registered ==
    [w \in WebhookIds |->
        [enabled |-> TRUE,
         events |-> IF w = "w1" THEN {"generation.complete", "generation.failed", "batch.complete"}
                    ELSE {"batch.complete"},
         failure_count |-> 0,
         log |-> <<>>,
         late |-> FALSE]]

CallIdle == [pc |-> "idle", event |-> "none", at |-> 0]

InitWebhook ==
    /\ PipelineIdle
    /\ batches = NoBatches
    /\ next_batch = 0
    /\ last_return = None
    /\ lock = Unlocked
    /\ emitted = NoEvents
    /\ adapter = AdapterIdle
    /\ avatar = AvatarIdle
    /\ webhooks = [reg |-> Registered, call |-> [c \in Callers |-> CallIdle], issued |-> 0]
    /\ endpoint = EndpointIdle

webhook_frame ==
    UNCHANGED <<pipeline_vars, batches, next_batch, last_return, lock, emitted, adapter,
                avatar, endpoint>>

\* the two `continue` tests at the head of the loop body
skipped(reg, w, event) == ~reg[w].enabled \/ event \notin reg[w].events

\* the loop of trigger_webhook from position `from` on: the call with its
\* next request under way, or the call ended
RECURSIVE run_loop(_, _, _)
run_loop(reg, event, from) ==
    IF from > Len(WebhookOrder) THEN CallIdle
    ELSE IF skipped(reg, WebhookOrder[from], event) THEN run_loop(reg, event, from + 1)
    ELSE [pc |-> "posting", event |-> event, at |-> from]

\* Variant: a success leaves failure_count as it is.
delivery_ok_keeps_count(r) == [r EXCEPT !.log = Append(@, "ok")]

\* `webhook_data["failure_count"] = 0` after raise_for_status() passed
delivery_ok(r) == [r EXCEPT !.failure_count = 0, !.log = Append(@, "ok")]

\* the except clause
delivery_failed(r) ==
    [r EXCEPT !.failure_count = @ + 1,
              !.enabled = IF r.failure_count + 1 >= disable_threshold THEN FALSE ELSE @,
              !.log = Append(@, "failed")]

\* a call of trigger_webhook up to its first `await client.post`
trigger_webhook(c, event) ==
    /\ webhooks.call[c].pc = "idle"
    /\ webhooks.issued < MaxEvents
    /\ webhooks' = [webhooks EXCEPT !.issued = @ + 1,
                                    !.call[c] = run_loop(webhooks.reg, event, 1)]
    /\ webhook_frame

\* the request of call c reaches the endpoint of the registration
webhook_receive(c) ==
    /\ webhooks.call[c].pc = "posting"
    /\ LET w == WebhookOrder[webhooks.call[c].at]
       IN webhooks' = [webhooks EXCEPT !.call[c].pc = "sent",
                                       !.reg[w].late = @ \/ ~webhooks.reg[w].enabled]
    /\ webhook_frame

\* `await client.post` ends: with a 2xx answer (only once the request was
\* received), or with an error answer, a timeout or a connection error;
\* the registration is updated and the loop goes on
webhook_response(c, ok) ==
    /\ webhooks.call[c].pc \in {"posting", "sent"}
    /\ ok => webhooks.call[c].pc = "sent"
    /\ LET w == WebhookOrder[webhooks.call[c].at]
           reg == [webhooks.reg EXCEPT ![w] = IF ok THEN delivery_ok(@) ELSE delivery_failed(@)]
       IN webhooks' = [webhooks EXCEPT !.reg = reg,
                                       !.call[c] = run_loop(reg, webhooks.call[c].event,
                                                            webhooks.call[c].at + 1)]
    /\ webhook_frame

WebhookNext ==
    \/ \E c \in Callers, event \in EventTypes : trigger_webhook(c, event)
    \/ \E c \in Callers : webhook_receive(c)
    \/ \E c \in Callers, ok \in BOOLEAN : webhook_response(c, ok)

WebhookSpec == InitWebhook /\ [][WebhookNext]_vars

\* ---------------------------------------------------------------------
\* The endpoints that start a Batch: start_generation (POST /api/generate,
\* routers/generation.py) and public_generate (POST /api/public/generate,
\* routers/public_api.py), and phases 1 and 2 of the process_batch that
\* start_generation hands to the background tasks.
\*   endpoint[r].run[i] : "start" | "profile_call" | "profile_ok"
\*                        | "cv_call" | "cv_ok" | "error"
\* ---------------------------------------------------------------------
InitStart ==
    /\ PipelineIdle
    /\ batches = NoBatches
    /\ next_batch = 0
    /\ last_return = None
    /\ lock = Unlocked
    /\ emitted = NoEvents
    /\ adapter = AdapterIdle
    /\ avatar = AvatarIdle
    /\ webhooks = WebhooksIdle
    /\ endpoint = EndpointIdle

start_frame ==
    UNCHANGED <<pipeline_vars, last_return, lock, emitted, adapter, avatar, webhooks>>

\* whether the endpoint starts process_batch for the Batch it created:
\* background_tasks.add_task(process_batch, ...) in start_generation,
\* nothing in public_generate
launches(r) == r = "/api/generate"

\* the request handler of endpoint r: create_batch, answer "started"
start_endpoint(r, qty) ==
    /\ ~endpoint[r].answered
    /\ next_batch < Len(BatchIdSeq)
    /\ next_batch' = next_batch + 1
    /\ batches' = [b \in DOMAIN batches \cup {BatchIdSeq[next_batch + 1]} |->
                      IF b = BatchIdSeq[next_batch + 1]
                      THEN [i \in 1..qty |-> PENDING]
                      ELSE batches[b]]
    /\ endpoint' = [endpoint EXCEPT ![r] =
                        [answered |-> TRUE, batch |-> BatchIdSeq[next_batch + 1],
                         launched |-> launches(r), run |-> [i \in 1..qty |-> "start"]]]
    /\ start_frame

\* Tasks inside `async with sem_phase1` / `async with sem_phase2`
Holding(r, place) == {i \in DOMAIN endpoint[r].run : endpoint[r].run[i] = place}

\* run_phase1(task) up to `await generate_profile_data` (generation.py 108-123)
run_phase1_begin(r, i) ==
    /\ endpoint[r].launched
    /\ i \in DOMAIN endpoint[r].run
    /\ endpoint[r].run[i] = "start"
    /\ Cardinality(Holding(r, "profile_call")) < 5
    /\ batches' = [batches EXCEPT ![endpoint[r].batch][i] = RUNNING]
    /\ endpoint' = [endpoint EXCEPT ![r].run[i] = "profile_call"]
    /\ UNCHANGED next_batch
    /\ start_frame

\* generate_profile_data returned (125-132) or raised (134-137)
run_phase1_end(r, i, ok) ==
    /\ i \in DOMAIN endpoint[r].run
    /\ endpoint[r].run[i] = "profile_call"
    /\ batches' = [batches EXCEPT ![endpoint[r].batch][i] = IF ok THEN @ ELSE ERROR]
    /\ endpoint' = [endpoint EXCEPT ![r].run[i] = IF ok THEN "profile_ok" ELSE "error"]
    /\ UNCHANGED next_batch
    /\ start_frame

\* after the gather of phase 1: run_phase2(task) up to
\* `await generate_cv_content_v2` (155-164)
run_phase2_begin(r, i) ==
    /\ i \in DOMAIN endpoint[r].run
    /\ \A j \in DOMAIN endpoint[r].run : endpoint[r].run[j] \notin {"start", "profile_call"}
    /\ endpoint[r].run[i] = "profile_ok"
    /\ Cardinality(Holding(r, "cv_call")) < 3
    /\ batches' = [batches EXCEPT ![endpoint[r].batch][i] = GENERATING_CONTENT]
    /\ endpoint' = [endpoint EXCEPT ![r].run[i] = "cv_call"]
    /\ UNCHANGED next_batch
    /\ start_frame

\* generate_cv_content_v2 returned (178-190) or raised (192-195)
run_phase2_end(r, i, ok) ==
    /\ i \in DOMAIN endpoint[r].run
    /\ endpoint[r].run[i] = "cv_call"
    /\ batches' = [batches EXCEPT ![endpoint[r].batch][i] = IF ok THEN @ ELSE ERROR]
    /\ endpoint' = [endpoint EXCEPT ![r].run[i] = IF ok THEN "cv_ok" ELSE "error"]
    /\ UNCHANGED next_batch
    /\ start_frame

RunStep(r, i) ==
    \/ run_phase1_begin(r, i)
    \/ \E ok \in BOOLEAN : run_phase1_end(r, i, ok)
    \/ run_phase2_begin(r, i)
    \/ \E ok \in BOOLEAN : run_phase2_end(r, i, ok)

StartNext ==
    \/ \E r \in Routes, qty \in 1..MaxQty : start_endpoint(r, qty)
    \/ \E r \in Routes, i \in 1..MaxQty : RunStep(r, i)

\* a process_batch that was started keeps running, and the adapter calls end
StartSpec ==
    InitStart /\ [][StartNext]_vars /\ \A r \in Routes, i \in 1..MaxQty : WF_vars(RunStep(r, i))

\* ---------------------------------------------------------------------
\* pdf_engine.generate_pdf_from_existing_html(html_filename), called for
\* the document of each Task.
\*   regen[t].html : "present" | "missing"   the HTML file of the Task
\*   regen[t].file : the destination PDF: "missing" | "empty" | "nonempty"
\*   regen[t].pc   : "idle" | "subprocess" | "returned" | "raised"
\* ---------------------------------------------------------------------
\* the documents on disk when regeneration is requested
InitRegen ==
    /\ tasks = [t \in TaskIds |-> Task]
    /\ pc = [t \in TaskIds |-> "start"]
    /\ ph2 = [t \in TaskIds |-> "idle"]
    /\ ph3 = [t \in TaskIds |-> "idle"]
    /\ results = [t \in TaskIds |-> [cv |-> "none", image |-> "none"]]
    /\ global_semaphore = SemaphoreSize
    /\ calls = [t \in TaskIds |-> NoCalls]
    /\ process = [t \in TaskIds |-> NoProcess]
    /\ pdf_file = [t \in TaskIds |-> "missing"]
    /\ batch_tasks = TaskIds
    /\ request = DefaultRequest
    /\ created = <<>>
    /\ batches = NoBatches
    /\ next_batch = 0
    /\ last_return = None
    /\ lock = Unlocked
    /\ emitted = NoEvents
    /\ adapter = AdapterIdle
    /\ avatar = AvatarIdle
    /\ webhooks = WebhooksIdle
    /\ endpoint = EndpointIdle
    /\ regen \in [TaskIds -> {[html |-> h, pc |-> "idle", process |-> NoProcess, file |-> f] :
                                h \in {"present", "missing"}, f \in FileStates}]
    /\ rate_limiter = RateLimiterIdle
    /\ cache = CacheIdle
    /\ runs = RunsIdle

regen_frame ==
    UNCHANGED <<tasks, pc, ph2, ph3, results, global_semaphore, calls, process, pdf_file,
                batch_tasks, request, created, services, rate_limiter, cache, runs>>

\* lines 284-313: FileNotFoundError, or the renderer is started in the executor
regen_enter(t) ==
    /\ regen[t].pc = "idle"
    /\ regen' = [regen EXCEPT ![t].pc = IF regen[t].html = "missing" THEN "raised"
                                        ELSE "subprocess"]
    /\ regen_frame

\* lines 315-319: `process.returncode == 0 and "PDF Generation Complete" in process.stdout`
regen_result(p, file) == IF subprocess_ok(p) THEN "returned" ELSE "raised"

\* the renderer process exited, leaving the destination file in some state
regen_exit(t) ==
    /\ regen[t].pc = "subprocess"
    /\ \E rc \in ReturnCodes, m \in BOOLEAN, f \in FileStates :
         LET p == [st |-> "exited", returncode |-> rc, marker |-> m]
         IN regen' = [regen EXCEPT ![t].process = p, ![t].file = f,
                                   ![t].pc = regen_result(p, f)]
    /\ regen_frame

\* subprocess.run raised TimeoutExpired (timeout=120); line 330 re-raises
regen_timeout(t) ==
    /\ regen[t].pc = "subprocess"
    /\ \E f \in FileStates :
         regen' = [regen EXCEPT ![t].process = [st |-> "timeout", returncode |-> 1,
                                                marker |-> FALSE],
                                ![t].file = f, ![t].pc = "raised"]
    /\ regen_frame

RegenNext == \E t \in TaskIds : regen_enter(t) \/ regen_exit(t) \/ regen_timeout(t)

RegenSpec == InitRegen /\ [][RegenNext]_vars

\* ---------------------------------------------------------------------
\* Several process_batch calls in one process
\*   runs[r].global_semaphore : free slots of the limiter created by call r
\*   runs[r].pc[t]            : "start" | "profile_call" | "gather" | "cv_call" | "done"
\* ---------------------------------------------------------------------
\* Everything outside the utilities is idle
ProgramIdle ==
    /\ tasks = [t \in TaskIds |-> Task]
    /\ pc = [t \in TaskIds |-> "start"]
    /\ ph2 = [t \in TaskIds |-> "idle"]
    /\ ph3 = [t \in TaskIds |-> "idle"]
    /\ results = [t \in TaskIds |-> [cv |-> "none", image |-> "none"]]
    /\ global_semaphore = SemaphoreSize
    /\ calls = [t \in TaskIds |-> NoCalls]
    /\ process = [t \in TaskIds |-> NoProcess]
    /\ pdf_file = [t \in TaskIds |-> "missing"]
    /\ batch_tasks = TaskIds
    /\ request = DefaultRequest
    /\ created = <<>>
    /\ batches = NoBatches
    /\ next_batch = 0
    /\ last_return = None
    /\ lock = Unlocked
    /\ emitted = NoEvents
    /\ adapter = AdapterIdle
    /\ avatar = AvatarIdle
    /\ webhooks = WebhooksIdle
    /\ endpoint = EndpointIdle

program_frame ==
    UNCHANGED <<tasks, pc, ph2, ph3, results, global_semaphore, calls, process, pdf_file,
                batch_tasks, request, created, services>>

\* the batches submitted while the process is up
RunIds == <<"r1", "r2">>

\* batch_service.py 45-53: each call of process_batch reads its batch and
\* creates `global_semaphore = asyncio.Semaphore(...)` as a local of the call
Run == [global_semaphore |-> SemaphoreSize, pc |-> [t \in TaskIds |-> "start"]]

InitRuns ==
    /\ ProgramIdle
    /\ regen = RegenIdle
    /\ rate_limiter = RateLimiterIdle
    /\ cache = CacheIdle
    /\ runs = RunsIdle

\* lines 35-53 and 339-341: the endpoint's background task enters process_batch
process_batch(r) ==
    /\ r = Len(runs) + 1
    /\ runs' = Append(runs, Run)
    /\ UNCHANGED <<regen, rate_limiter, cache>>
    /\ program_frame

\* lines 67-69 and 113-115: a pipeline of call r enters `async with global_semaphore`,
\* the semaphore of its own call, and starts the adapter call
run_acquire(r, t) ==
    /\ runs[r].pc[t] \in {"start", "gather"}
    /\ acquire_ok(runs[r].global_semaphore)
    /\ runs' = [runs EXCEPT ![r].global_semaphore = @ - 1,
                            ![r].pc[t] = IF @ = "start" THEN "profile_call" ELSE "cv_call"]
    /\ UNCHANGED <<regen, rate_limiter, cache>>
    /\ program_frame

\* lines 79-94 and 129-142: the adapter call returned or raised, the block is left
run_release(r, t) ==
    /\ runs[r].pc[t] \in {"profile_call", "cv_call"}
    /\ \E ok \in BOOLEAN :
        runs' = [runs EXCEPT ![r].global_semaphore = @ + 1,
                             ![r].pc[t] = IF @ = "profile_call" /\ ok THEN "gather"
                                          ELSE "done"]
    /\ UNCHANGED <<regen, rate_limiter, cache>>
    /\ program_frame

RunsNext ==
    \/ \E r \in 1..Len(RunIds) : process_batch(r)
    \/ \E r \in 1..Len(runs), t \in TaskIds : run_acquire(r, t)
    \/ \E r \in 1..Len(runs), t \in TaskIds : run_release(r, t)

RunsSpec == InitRuns /\ [][RunsNext]_vars

\* ---------------------------------------------------------------------
\* RateLimiter (core/rate_limiter.py)
\*   rate_limiter.now      : the clock, time.time()
\*   rate_limiter.limits   : _limits, endpoint -> <<max_requests, window_seconds>>
\*   rate_limiter.requests : _requests, key -> times of the recorded requests
\*   rate_limiter.allowed  : key -> times of every request that was allowed
\*   rate_limiter.last     : endpoint and answer of the last is_allowed call
\* ---------------------------------------------------------------------
\* the requests that arrive: one limited endpoint from two clients, and an
\* endpoint without a configured limit
LimitedEndpoint == "/api/generate"
Endpoints == {LimitedEndpoint, "/api/health"}
Identifiers == {"10.0.0.1", "10.0.0.2"}

\* limits given to set_limit, <<max_requests, window_seconds>>
Limits == {<<1, 1>>, <<1, 2>>, <<2, 1>>, <<2, 2>>}

\* line 27: key = f"{endpoint}:{identifier}"
request_key(path, identifier) == path \o ":" \o identifier

RequestKeys == {request_key(LimitedEndpoint, i) : i \in Identifiers}

InitRateLimiter ==
    /\ ProgramIdle
    /\ regen = RegenIdle
    /\ \E l \in Limits :
          rate_limiter = [now |-> 0,
                          limits |-> [e \in {LimitedEndpoint} |-> l],
                          requests |-> [k \in RequestKeys |-> <<>>],
                          allowed |-> [k \in RequestKeys |-> <<>>],
                          last |-> <<"none", TRUE>>]
    /\ cache = CacheIdle
    /\ runs = RunsIdle

RECURSIVE SelectAfter(_, _)
\* lines 33-36: [req_time for req_time in list if req_time > window_start]
SelectAfter(list, window_start) ==
    IF list = <<>> THEN <<>>
    ELSE IF Head(list) > window_start
         THEN <<Head(list)>> \o SelectAfter(Tail(list), window_start)
         ELSE SelectAfter(Tail(list), window_start)

\* Variant: a request is denied only once the list is longer than max_requests.
limit_exceeded(list, max_requests) == Len(list) > max_requests

\* line 39: len(self._requests[key]) >= max_requests
limit_reached(list, max_requests) == Len(list) >= max_requests

\* time passes between two calls
clock_advance ==
    /\ rate_limiter.now < MaxTime
    /\ rate_limiter' = [rate_limiter EXCEPT !.now = @ + 1]
    /\ UNCHANGED <<regen, cache, runs>>
    /\ program_frame

\* lines 18-64, for the request path given as endpoint
is_allowed(path, identifier) ==
    /\ IF path \notin DOMAIN rate_limiter.limits
       THEN rate_limiter' = [rate_limiter EXCEPT !.last = <<path, TRUE>>]
       ELSE LET max_requests == rate_limiter.limits[path][1]
                window_seconds == rate_limiter.limits[path][2]
                key == request_key(path, identifier)
                now == rate_limiter.now
                cleaned == SelectAfter(rate_limiter.requests[key], now - window_seconds)
            IN IF limit_reached(cleaned, max_requests)
               THEN rate_limiter' = [rate_limiter EXCEPT !.requests[key] = cleaned,
                                                         !.last = <<path, FALSE>>]
               ELSE rate_limiter' = [rate_limiter EXCEPT
                                        !.requests[key] = Append(cleaned, now),
                                        !.allowed[key] = Append(@, now),
                                        !.last = <<path, TRUE>>]
    /\ UNCHANGED <<regen, cache, runs>>
    /\ program_frame

RateLimiterNext ==
    \/ clock_advance
    \/ \E e \in Endpoints, i \in Identifiers : is_allowed(e, i)

RateLimiterSpec == InitRateLimiter /\ [][RateLimiterNext]_vars

\* ---------------------------------------------------------------------
\* Cache (core/cache.py)
\*   cache.now     : the clock, datetime.now()
\*   cache.entries : _cache, key -> CacheEntry (present = FALSE: no entry)
\*   cache.hits, cache.misses : _hits, _misses
\*   cache.latest  : key -> the latest set(key, ...), live until delete or clear
\*   cache.gets    : get calls since the last clear
\*   cache.last    : key and returned value of the last get
\* ---------------------------------------------------------------------
CacheKeys == {"k1", "k2"}
CacheValues == {"v1", "v2"}
TTLs == {0, 1}

NoEntry == [present |-> FALSE, value |-> None, created_at |-> 0, ttl |-> 0]

\* lines 10-13: CacheEntry(value, ttl)
CacheEntry(value, ttl, now) ==
    [present |-> TRUE, value |-> value, created_at |-> now, ttl |-> ttl]

\* Variant: an entry whose age equals its ttl counts as expired.
is_expired_at_ttl(entry, now) == now - entry.created_at >= entry.ttl

\* lines 15-16: (datetime.now() - self.created_at).total_seconds() > self.ttl
is_expired(entry, now) == now - entry.created_at > entry.ttl

InitCache ==
    /\ ProgramIdle
    /\ regen = RegenIdle
    /\ rate_limiter = RateLimiterIdle
    /\ cache = [now |-> 0,
                entries |-> [k \in CacheKeys |-> NoEntry],
                hits |-> 0,
                misses |-> 0,
                latest |-> [k \in CacheKeys |-> NoEntry],
                gets |-> 0,
                last |-> <<"none", None>>]
    /\ runs = RunsIdle

cache_frame ==
    /\ UNCHANGED <<regen, rate_limiter, runs>>
    /\ program_frame

\* time passes between two calls
cache_clock_advance ==
    /\ cache.now < MaxTime
    /\ cache' = [cache EXCEPT !.now = @ + 1]
    /\ cache_frame

\* lines 25-38
cache_get(key) ==
    /\ cache.gets < MaxGets
    /\ LET entry == cache.entries[key] IN
        IF ~entry.present
        THEN cache' = [cache EXCEPT !.misses = @ + 1, !.gets = @ + 1,
                                    !.last = <<key, None>>]
        ELSE IF is_expired(entry, cache.now)
             THEN cache' = [cache EXCEPT !.entries[key] = NoEntry, !.misses = @ + 1,
                                         !.gets = @ + 1, !.last = <<key, None>>]
             ELSE cache' = [cache EXCEPT !.hits = @ + 1, !.gets = @ + 1,
                                         !.last = <<key, entry.value>>]
    /\ cache_frame

\* lines 40-42
cache_set(key, value, ttl) ==
    /\ cache' = [cache EXCEPT !.entries[key] = CacheEntry(value, ttl, cache.now),
                              !.latest[key] = CacheEntry(value, ttl, cache.now)]
    /\ cache_frame

\* lines 44-47
cache_delete(key) ==
    /\ cache' = [cache EXCEPT !.entries[key] = NoEntry, !.latest[key] = NoEntry]
    /\ cache_frame

\* lines 49-53
cache_clear ==
    /\ cache' = [cache EXCEPT !.entries = [k \in CacheKeys |-> NoEntry],
                              !.latest = [k \in CacheKeys |-> NoEntry],
                              !.hits = 0, !.misses = 0, !.gets = 0]
    /\ cache_frame

CacheNext ==
    \/ cache_clock_advance
    \/ \E k \in CacheKeys : cache_get(k)
    \/ \E k \in CacheKeys, v \in CacheValues, ttl \in TTLs : cache_set(k, v, ttl)
    \/ \E k \in CacheKeys : cache_delete(k)
    \/ cache_clear

CacheSpec == InitCache /\ [][CacheNext]_vars

\* ---------------------------------------------------------------------
\* Observations used by the properties
\* ---------------------------------------------------------------------
\* Adapter calls (generate_profile_data, generate_cv_content_v2, generate_avatar) in flight
InFlightOf(t) ==
    (IF calls[t].profile = "inflight" THEN 1 ELSE 0)
    + (IF calls[t].cv = "inflight" THEN 1 ELSE 0)
    + (IF calls[t].image = "inflight" THEN 1 ELSE 0)

RECURSIVE SumInFlight(_)
SumInFlight(n) == IF n = 0 THEN 0 ELSE InFlightOf(n) + SumInFlight(n - 1)

InFlight == SumInFlight(NumTasks)

Terminal(st) == st \in {COMPLETE, ERROR}

\* render_cv_pdf has been invoked for the Task
RenderInvoked(t) == calls[t].html # "none"

\* ---------------------------------------------------------------------
\* C1: at most SemaphoreSize persona, content and portrait adapter calls of
\* the batch are in flight at any time, for every interleaving.
\* ---------------------------------------------------------------------
C1_ConcurrencyBound == InFlight <= SemaphoreSize

\* The limiter is saturated while a whole pipeline and a child call still wait.
C1_Witness ==
    /\ InFlight = SemaphoreSize
    /\ \E t \in TaskIds : pc[t] = "start"
    /\ \E t \in TaskIds : ph2[t] = "acquire" \/ ph3[t] = "acquire"

\* ---------------------------------------------------------------------
\* C2: under fair scheduling, with every external call returning or failing,
\* every pipeline ends and every Task reaches COMPLETE or ERROR, so that the
\* batch satisfies is_complete; no pipeline waits for a slot forever.
\* ---------------------------------------------------------------------
C2_BatchTerminates ==
    <>[](is_complete(tasks) /\ \A t \in TaskIds : pc[t] = "done")

\* The batch is complete after some pipeline had to wait for the limiter.
C2_Witness ==
    /\ is_complete(tasks)
    /\ \A t \in TaskIds : pc[t] = "done"
    /\ \E t \in TaskIds : tasks[t].status = COMPLETE
    /\ \E t \in TaskIds : tasks[t].status = ERROR
    /\ global_semaphore = SemaphoreSize

\* ---------------------------------------------------------------------
\* C3: Subtask 4 stays PENDING until Subtasks 2 and 3 are both terminal, and
\* render_cv_pdf is not entered before both gathered calls have settled.
\* ---------------------------------------------------------------------
C3_AssemblyAfterJoin ==
    \A t \in TaskIds :
        /\ tasks[t].subtasks[4] # PENDING =>
              /\ Terminal(tasks[t].subtasks[2])
              /\ Terminal(tasks[t].subtasks[3])
        /\ RenderInvoked(t) =>
              /\ calls[t].cv \in {"ok", "fail"}
              /\ calls[t].image \in {"ok", "fail"}
              /\ tasks[t].cv_data # None
              /\ tasks[t].image_path # None

\* Assembly runs for a Task whose portrait was replaced by the placeholder.
C3_Witness ==
    \E t \in TaskIds :
        /\ tasks[t].subtasks[4] = RUNNING
        /\ tasks[t].image_path = "mock"
        /\ tasks[t].subtasks[3] = COMPLETE

\* ---------------------------------------------------------------------
\* C4: Subtasks 2 and 3 stay PENDING and no content or portrait call starts
\* before Subtask 1 is COMPLETE; after Subtask 1 = ERROR, Subtasks 2..5 stay
\* PENDING and no further call is made for the Task.
\* ---------------------------------------------------------------------
C4_Phase1First ==
    \A t \in TaskIds :
        /\ (\/ tasks[t].subtasks[2] # PENDING
            \/ tasks[t].subtasks[3] # PENDING
            \/ calls[t].cv # "none"
            \/ calls[t].image # "none") => tasks[t].subtasks[1] = COMPLETE
        /\ tasks[t].subtasks[1] = ERROR =>
              /\ \A i \in 2..5 : tasks[t].subtasks[i] = PENDING
              /\ calls[t] = [NoCalls EXCEPT !.profile = "fail"]
              /\ process[t].st = "none"
              /\ pc[t] = "done"

\* One Task failed in phase 1 while a sibling's content call is in flight.
C4_Witness ==
    \E t, u \in TaskIds :
        /\ tasks[t].subtasks[1] = ERROR
        /\ calls[u].cv = "inflight"

\* ---------------------------------------------------------------------
\* C5: when the content call of a Task failed, Subtasks 4 and 5 stay PENDING
\* and render_cv_pdf is never invoked for it, whatever the portrait call did;
\* its pipeline ends with the Task and Subtask 2 in ERROR; a batch in which
\* every content call failed ends with completed = 0 and failed = total.
\* ---------------------------------------------------------------------
C5_ContentFailureStops ==
    /\ \A t \in TaskIds :
          calls[t].cv = "fail" =>
              /\ tasks[t].subtasks[4] = PENDING
              /\ tasks[t].subtasks[5] = PENDING
              /\ ~RenderInvoked(t)
              /\ process[t].st = "none"
              /\ pc[t] = "done" =>
                    /\ tasks[t].status = ERROR
                    /\ tasks[t].subtasks[2] = ERROR
    /\ (\A t \in TaskIds : calls[t].cv = "fail" /\ pc[t] = "done") =>
          /\ completed(tasks) = 0
          /\ failed(tasks) = NumTasks

\* Every Task of the batch ended after a content failure, the portrait
\* service being able to complete the job of one and not of another.
C5_Witness ==
    /\ \A t \in TaskIds : calls[t].cv = "fail" /\ pc[t] = "done"
    /\ \E t \in TaskIds : calls[t].krea = "completes"
    /\ \E t \in TaskIds : calls[t].krea = "fails"
    /\ failed(tasks) = NumTasks

\* ---------------------------------------------------------------------
\* C6 (as claimed): portrait call failed while persona, content, placeholder
\* and assembly succeeded => the Task ends COMPLETE with Subtask 3 COMPLETE
\* and the placeholder as image reference; a batch of such Tasks ends with
\* completed = total and failed = 0.
\* ---------------------------------------------------------------------
C6_Case(t) ==
    /\ calls[t].profile = "ok"
    /\ calls[t].cv = "ok"
    /\ calls[t].image = "fail"
    /\ calls[t].mock = "ok"
    /\ calls[t].html = "ok"
    /\ pc[t] = "done"

C6_FallbackCompletes ==
    /\ \A t \in TaskIds :
          C6_Case(t) =>
              /\ tasks[t].status = COMPLETE
              /\ tasks[t].subtasks[3] = COMPLETE
              /\ tasks[t].image_path = "mock"
    /\ (\A t \in TaskIds : C6_Case(t)) =>
          /\ completed(tasks) = NumTasks
          /\ failed(tasks) = 0

\* ---------------------------------------------------------------------
\* C7 (as claimed): a Task in ERROR has the Subtask of its failing phase in
\* ERROR, every later Subtask PENDING, and its pipeline has ended.
\* ---------------------------------------------------------------------
C7_FatalFailureMarksSubtask ==
    \A t \in TaskIds :
        tasks[t].status = ERROR =>
            /\ pc[t] = "done"
            /\ \E i \in 1..5 :
                  /\ tasks[t].subtasks[i] = ERROR
                  /\ \A j \in (i + 1)..5 : tasks[t].subtasks[j] = PENDING

\* ---------------------------------------------------------------------
\* C8: every step changes the record of at most one Task, and the status a
\* pipeline ends with is determined by the outcomes of that Task's own calls.
\* ---------------------------------------------------------------------
OwnOutcome(c) ==
    IF \/ c.profile = "fail"
       \/ c.cv = "fail"
       \/ (c.image = "fail" /\ c.mock = "fail")
       \/ c.html = "fail"
       \/ c.temp_html = "fail"
    THEN ERROR
    ELSE COMPLETE

C8_SiblingIsolation ==
    [][/\ \E t \in TaskIds : \A u \in TaskIds \ {t} : tasks'[u] = tasks[u]
       /\ \A t \in TaskIds :
             pc'[t] = "done" => tasks'[t].status = OwnOutcome(calls'[t])]_vars

\* One Task ended in ERROR after its fallback failed and a sibling ended COMPLETE.
C8_Witness ==
    \E t, u \in TaskIds :
        /\ pc[t] = "done" /\ tasks[t].status = ERROR /\ calls[t].mock = "fail"
        /\ pc[u] = "done" /\ tasks[u].status = COMPLETE

\* ---------------------------------------------------------------------
\* C9: Subtask 5 is COMPLETE, and pdf_path set, only if the renderer exited
\* with code 0 and the destination file exists with non-zero size; exit 0
\* with an empty or missing file gives Subtask 5 = ERROR and pdf_path = None.
\* ---------------------------------------------------------------------
C9_RenderVerified ==
    \A t \in TaskIds :
        /\ (tasks[t].subtasks[5] = COMPLETE \/ tasks[t].pdf_path # None) =>
              /\ process[t].st = "exited"
              /\ process[t].returncode = 0
              /\ pdf_file[t] = "nonempty"
        /\ (/\ process[t].st = "exited"
            /\ process[t].returncode = 0
            /\ pdf_file[t] \in {"empty", "missing"}) =>
              /\ tasks[t].subtasks[5] = ERROR
              /\ tasks[t].pdf_path = None

\* The renderer reported success (exit 0, marker printed) over a zero-byte file.
C9_Witness ==
    \E t \in TaskIds :
        /\ subprocess_ok(process[t])
        /\ pdf_file[t] = "empty"
        /\ tasks[t].subtasks[5] = ERROR
        /\ tasks[t].pdf_path = None

\* ---------------------------------------------------------------------
\* C10 (as claimed): once render_cv_html has produced the document, any
\* failure of rendering leaves the Task COMPLETE with Subtask 4 COMPLETE,
\* Subtask 5 ERROR, pdf_path = None and html_path set.
\* ---------------------------------------------------------------------
RenderingFailed(t) ==
    \/ calls[t].temp_html = "fail"
    \/ process[t].st = "timeout"
    \/ process[t].st = "exited" /\ ~(subprocess_ok(process[t]) /\ pdf_file[t] = "nonempty")

C10_DegradedResult ==
    \A t \in TaskIds :
        (pc[t] = "done" /\ calls[t].html = "ok" /\ RenderingFailed(t)) =>
            /\ tasks[t].status = COMPLETE
            /\ tasks[t].subtasks[4] = COMPLETE
            /\ tasks[t].subtasks[5] = ERROR
            /\ tasks[t].pdf_path = None
            /\ tasks[t].html_path # None

\* ---------------------------------------------------------------------
\* C11: in every observable state a Task's progress is 100 exactly when its
\* status is COMPLETE.
\* ---------------------------------------------------------------------
C11_ProgressIffComplete ==
    \A t \in TaskIds : (tasks[t].progress = 100) <=> (tasks[t].status = COMPLETE)

\* one Task COMPLETE at 100 with a failed rendering, another in ERROR at 80
C11_Witness ==
    \E t, u \in TaskIds :
        /\ tasks[t].status = COMPLETE
        /\ tasks[t].progress = 100
        /\ tasks[t].subtasks[5] = ERROR
        /\ tasks[u].status = ERROR
        /\ tasks[u].progress = 80

\* ---------------------------------------------------------------------
\* C12: across every step the progress of every Task never decreases and
\* is one of the phase-boundary values 0, 20, 50, 80, 100.
\* ---------------------------------------------------------------------
ProgressMarks == {0, 20, 50, 80, 100}

C12_ProgressMonotone ==
    [][\A t \in TaskIds :
          /\ tasks[t].progress \in ProgressMarks
          /\ tasks'[t].progress \in ProgressMarks
          /\ tasks'[t].progress >= tasks[t].progress]_vars

\* one Task finished at 100 while another waits for the placeholder at 50
C12_Witness ==
    \E t, u \in TaskIds :
        /\ tasks[t].progress = 100
        /\ tasks[u].progress = 50
        /\ pc[u] = "mock_call"

\* ---------------------------------------------------------------------
\* C13: for every Batch of the registry, is_complete is true exactly when
\* every Task currently in the Batch is COMPLETE or ERROR, a Batch without
\* Tasks (created with quantity 0 or emptied by delete_task) is complete,
\* and completed + failed = total holds exactly when is_complete holds.
\* ---------------------------------------------------------------------
C13_BatchCompletion ==
    \A b \in DOMAIN batches :
        /\ is_complete(StatusView(batches[b]))
              <=> (\A i \in DOMAIN batches[b] : Terminal(batches[b][i]))
        /\ DOMAIN batches[b] = {} => is_complete(StatusView(batches[b]))
        /\ (completed(StatusView(batches[b])) + failed(StatusView(batches[b]))
                  = total(StatusView(batches[b])))
              <=> is_complete(StatusView(batches[b]))

\* a Batch with a COMPLETE and an ERROR Task is complete next to a Batch
\* that delete_task left with one unfinished Task
C13_Witness ==
    /\ last_return = "True"
    /\ \E b, c \in DOMAIN batches :
          /\ Cardinality(DOMAIN batches[b]) = 2
          /\ completed(StatusView(batches[b])) = 1
          /\ failed(StatusView(batches[b])) = 1
          /\ Cardinality(DOMAIN batches[c]) = 1
          /\ ~is_complete(StatusView(batches[c]))

\* ---------------------------------------------------------------------
\* C14: the phase index of a Task never decreases, and a Task whose status
\* is COMPLETE or ERROR is never modified again.
\* ---------------------------------------------------------------------
C14_MonotoneAndFrozen ==
    [][\A t \in TaskIds :
          /\ tasks'[t].current_subtask_index >= tasks[t].current_subtask_index
          /\ Terminal(tasks[t].status) => tasks'[t] = tasks[t]]_vars

\* a Task that failed in phase 4 while another Task still waits for its renderer
C14_Witness ==
    \E t, u \in TaskIds :
        /\ tasks[t].status = ERROR
        /\ tasks[t].current_subtask_index = 3
        /\ pc[t] = "done"
        /\ pc[u] = "pdf_subprocess"

\* ---------------------------------------------------------------------
\* C15 (as claimed): the content call and the portrait call of a Task start
\* together after phase 1 and each takes a slot of its own: when
\* phase3_image passes the limiter, its call is in flight and holds a slot.
\* ---------------------------------------------------------------------
C15_PortraitCallHoldsSlot ==
    [][\A t \in TaskIds :
          (ph3[t] = "acquire" /\ ph3'[t] # "acquire") =>
              /\ calls'[t].image = "inflight"
              /\ global_semaphore' = global_semaphore - 1]_vars

\* ---------------------------------------------------------------------
\* C16: the renderer process is started, and Subtask 5 leaves PENDING, only
\* after the assembled document was written; Subtask 5 leaves PENDING only
\* once Subtask 4 is COMPLETE.
\* ---------------------------------------------------------------------
C16_RenderAfterAssembly ==
    \A t \in TaskIds :
        /\ process[t].st # "none" => calls[t].html = "ok"
        /\ tasks[t].subtasks[5] # PENDING =>
              calls[t].html = "ok" /\ tasks[t].subtasks[4] = COMPLETE

\* a renderer is running with Subtask 5 still PENDING, another Task finished phase 5
C16_Witness ==
    \E t, u \in TaskIds :
        /\ process[t].st = "running"
        /\ tasks[t].subtasks[5] = PENDING
        /\ tasks[u].subtasks[5] = COMPLETE
        /\ tasks[u].subtasks[4] = COMPLETE

\* ---------------------------------------------------------------------
\* C17: when the portrait call fails and the placeholder is substituted,
\* the portrait error is stored in the Task's error field, the status is
\* not ERROR and phase 4 is entered.
\* ---------------------------------------------------------------------
C17_FallbackRecordsError ==
    \A t \in TaskIds :
        (calls[t].image = "fail" /\ calls[t].mock = "ok" /\ pc[t] = "pdf_subprocess") =>
            /\ tasks[t].error # None
            /\ tasks[t].status # ERROR
            /\ tasks[t].subtasks[4] = RUNNING

\* ---------------------------------------------------------------------
\* C18: a Task returned by create_batch is PENDING and its role, gender,
\* ethnicity, origin and expertise level are concrete: none is the wildcard
\* "any" in any letter case, and each is a member of the configured pool
\* (wildcard or empty list) or of the caller's list.
\* ---------------------------------------------------------------------
IsWildcard(lst) == lst = <<>> \/ \E x \in Elems(lst) : lower(x) = "any"

Resolved(v, lst, pool) ==
    /\ lower(v) # "any"
    /\ IF IsWildcard(lst) THEN v \in pool ELSE v \in Elems(lst)

DemographicsResolved ==
    /\ created[1].status = PENDING
    /\ Resolved(created[1].role, request.roles, get_all_roles)
    /\ Resolved(created[1].gender, request.genders, GendersPool)
    /\ Resolved(created[1].ethnicity, request.ethnicities, EthnicitiesPool)
    /\ Resolved(created[1].origin, request.origins, OriginsPool)

ServicesWork(t) ==
    /\ calls[t].profile = "ok"
    /\ calls[t].cv = "ok"
    /\ calls[t].krea = "completes"
    /\ calls[t].html = "ok"
    /\ calls[t].temp_html = "ok"
    /\ subprocess_ok(process[t])
    /\ pdf_file[t] = "nonempty"

C20_CompleteMeansIdle ==
    is_complete(BatchView) =>
        \A t \in TaskIds : pc[t] \in {"start", "done"} /\ InFlightOf(t) = 0

\* ---------------------------------------------------------------------
\* C21: a Batch leaves the registry only in a step that removes exactly
\* the Batches that are complete and changes nothing else; a step that
\* removes a Task removes that one Task only, keeps its Batch (also when it
\* was the last Task) and returns True; delete_task returns False only
\* when it changed nothing.
\* ---------------------------------------------------------------------
RegisteredTasks(bs) == {id \in RegistryTaskIds : id[1] \in DOMAIN bs /\ id[2] \in DOMAIN bs[id[1]]}

C21_OnlyClearRemoves ==
    [][LET gone == DOMAIN batches \ DOMAIN batches'
           kept == DOMAIN batches \cap DOMAIN batches'
           removed == {id \in RegisteredTasks(batches) :
                         id[1] \in kept /\ id \notin RegisteredTasks(batches')}
       IN /\ gone # {} =>
               /\ gone = {b \in DOMAIN batches : is_complete(StatusView(batches[b]))}
               /\ DOMAIN batches' = DOMAIN batches \ gone
               /\ \A b \in kept : batches'[b] = batches[b]
          /\ removed # {} =>
               /\ gone = {}
               /\ Cardinality(removed) = 1
               /\ last_return' = "True"
               /\ \A id \in RegisteredTasks(batches) \ removed :
                     /\ id \in RegisteredTasks(batches')
                     /\ batches'[id[1]][id[2]] = batches[id[1]][id[2]]
          /\ (last_return' = "False" /\ last_return # "False") => batches' = batches]_vars

\* a Batch that lost its last Task to delete_task is still registered,
\* next to a Batch whose Tasks all finished and that was not cleared yet
C21_Witness ==
    /\ last_return = "True"
    /\ \E b, c \in DOMAIN batches :
          /\ DOMAIN batches[b] = {}
          /\ DOMAIN batches[c] # {}
          /\ is_complete(StatusView(batches[c]))

\* ---------------------------------------------------------------------
\* C22: every step that changes the registry (a Batch created, a Task
\* deleted, Batches cleared, a status written) is taken while
\* task_manager._lock is held.
\* ---------------------------------------------------------------------
C22_MutationsUnderLock ==
    [][batches' # batches => lock = "locked" /\ lock' = "locked"]_vars

\* ---------------------------------------------------------------------
\* C23: a call whose every attempt was answered 429 ends after exactly 3
\* requests, slept a strictly longer time after each of them, and ends by
\* raising; it never returns without a payload.
\* ---------------------------------------------------------------------
Ended(a) == a.pc \in {"returned", "returned_none", "raised"}

AllAnswered(a, codes) ==
    /\ a.responses # <<>>
    /\ \A i \in DOMAIN a.responses : a.responses[i].status \in codes

StrictlyLonger(ws) == \A i \in DOMAIN ws : i > 1 => ws[i] > ws[i - 1]

C23_RateLimitedThenRaise ==
    /\ Len(adapter.sent) <= max_retries
    /\ (Ended(adapter) /\ AllAnswered(adapter, {429})) =>
          /\ Len(adapter.sent) = max_retries
          /\ Len(adapter.waits) = max_retries
          /\ StrictlyLonger(adapter.waits)
          /\ adapter.pc = "raised"

\* ---------------------------------------------------------------------
\* C24: a call that asked for another model than the default one and was
\* rejected with 401, 403 or 404 has, when it ends, switched to the
\* default model exactly once and sent the request that follows the first
\* rejection with the default model, also when that rejection answered
\* the last regular attempt.
\* ---------------------------------------------------------------------
Rejections(a) == {i \in DOMAIN a.responses : a.responses[i].status \in {401, 403, 404}}

FirstRejection(a) == CHOOSE i \in Rejections(a) : \A j \in Rejections(a) : i <= j

C24_SwitchOnceAndRetry ==
    (Ended(adapter) /\ Rejections(adapter) # {} /\ adapter.sent[1] # fallback_model) =>
        /\ adapter.switches = 1
        /\ Len(adapter.sent) > FirstRejection(adapter)
        /\ adapter.sent[FirstRejection(adapter) + 1] = fallback_model

\* ---------------------------------------------------------------------
\* C25 as stated: once an answer could not be parsed after the repair,
\* no further request is sent and the call ends by raising.
\* ---------------------------------------------------------------------
\* the answers with status 200 whose text neither adapter can parse
Unparseable(a) ==
    {i \in DOMAIN a.responses :
        /\ a.responses[i].status = 200
        /\ ~loads_ok(append_brace(clean_json_response(a.responses[i].content)))}

C25_UnparseableIsPermanent ==
    \A i \in Unparseable(adapter) :
        /\ Len(adapter.sent) = i
        /\ adapter.pc = "raised"

\* C25 amended: an unparseable answer to the last of the 3 attempts ends
\* the call by raising, with no further request; an unparseable answer to
\* an earlier attempt is followed by the next attempt, and the call never
\* returns a payload from an unparseable answer.
C25_UnparseableIsRetried ==
    \A i \in Unparseable(adapter) :
        /\ i = max_retries => (adapter.pc = "raised" /\ Len(adapter.sent) = max_retries)
        /\ (i < max_retries /\ Len(adapter.responses) = i) =>
              (adapter.pc = "attempt" /\ adapter.attempt = i) \/ adapter.pc = "awaiting"
        /\ Len(adapter.responses) = i => adapter.pc # "returned"

\* three unparseable answers in a row: three requests, then the error
C25_Witness ==
    /\ Unparseable(adapter) = 1..max_retries
    /\ Len(adapter.sent) = max_retries
    /\ adapter.pc = "raised"

\* ---------------------------------------------------------------------
\* C26: without credentials the call ends by raising before its first
\* attempt and without a request; phase 1 of the Task that made the call
\* ends with the Task and Subtask 1 in ERROR and Subtasks 2 to 5 PENDING,
\* and the Task never reaches phases 2 and 3.
\* ---------------------------------------------------------------------
C26_MissingCredentialsFatal ==
    adapter.key = "missing" =>
        /\ adapter.pc \in {"idle", "raised"}
        /\ adapter.sent = <<>>
        /\ adapter.attempt = 0
        /\ adapter.waits = <<>>
        /\ pc[1] \in {"start", "profile_call", "done"}
        /\ pc[1] = "done" =>
              /\ tasks[1].status = ERROR
              /\ tasks[1].subtasks[1] = ERROR
              /\ \A i \in 2..5 : tasks[1].subtasks[i] = PENDING

C26_Witness ==
    /\ adapter.key = "missing"
    /\ adapter.fn = "profile"
    /\ adapter.pc = "raised"
    /\ pc[1] = "done"
    /\ tasks[1].status = ERROR

\* ---------------------------------------------------------------------
\* C27: a call of generate_avatar sends at most 30 status requests and
\* ends; it returns only after the job completed and the image was
\* downloaded, and every other end is an error: a failed job at the poll
\* that reports it, the timeout after the 30th poll.
\* ---------------------------------------------------------------------
AvatarEnded == avatar.pc \in {"returned", "raised"}

C27_AvatarTerminates ==
    /\ [](/\ avatar.polls <= max_polls
          /\ avatar.pc = "returned" => (avatar.image /\ avatar.job = "completed")
          /\ avatar.image => avatar.pc = "returned"
          /\ avatar.pc = "raised" <=> avatar.error # "none"
          /\ avatar.job = "failed" => (avatar.pc = "raised" /\ avatar.error = "failed")
          /\ avatar.error = "timeout" => avatar.polls = max_polls)
    /\ <>AvatarEnded

\* the 30th poll found the job unfinished and the call timed out
C27_Witness ==
    /\ avatar.pc = "raised"
    /\ avatar.error = "timeout"
    /\ avatar.polls = max_polls
    /\ avatar.job = "pending"

\* ---------------------------------------------------------------------
\* C28 as stated: a registration is disabled in the step in which its 5th
\* delivery in a row fails, never with fewer failures in a row and never
\* later; a success resets failure_count; and no event reaches a
\* registration while it is disabled.
\* ---------------------------------------------------------------------
\* number of failed deliveries at the end of the log
RECURSIVE TrailingFailures(_)
TrailingFailures(log) ==
    IF log = <<>> \/ log[Len(log)] = "ok" THEN 0
    ELSE 1 + TrailingFailures(SubSeq(log, 1, Len(log) - 1))

DisabledExactlyAtFive ==
    /\ [](\A w \in WebhookIds :
            /\ webhooks.reg[w].failure_count = TrailingFailures(webhooks.reg[w].log)
            /\ webhooks.reg[w].enabled => TrailingFailures(webhooks.reg[w].log) < disable_threshold)
    /\ [][\A w \in WebhookIds :
            (webhooks.reg[w].enabled /\ ~webhooks'.reg[w].enabled) =>
                TrailingFailures(webhooks'.reg[w].log) = disable_threshold]_vars
    /\ [][\A w \in WebhookIds : ~webhooks.reg[w].enabled => ~webhooks'.reg[w].enabled]_vars

C28_NothingAfterDisable ==
    /\ DisabledExactlyAtFive
    /\ [](\A w \in WebhookIds : ~webhooks.reg[w].late)

\* C28 amended: as above, except that only the start of a delivery is
\* ruled out for a disabled registration: a request that was under way
\* when the registration was disabled may still reach it.
C28_NothingStartedAfterDisable ==
    /\ DisabledExactlyAtFive
    /\ [][\A c \in Callers :
            (webhooks'.call[c].pc = "posting"
                 /\ (webhooks.call[c].pc # "posting" \/ webhooks'.call[c].at # webhooks.call[c].at)) =>
                webhooks.reg[WebhookOrder[webhooks'.call[c].at]].enabled
                    \/ webhooks'.reg[WebhookOrder[webhooks'.call[c].at]].enabled]_vars

\* a registration was disabled by its 5th failure while another request to
\* it was under way, and that request reached it afterwards
C28_Witness ==
    \E w \in WebhookIds :
        /\ ~webhooks.reg[w].enabled
        /\ webhooks.reg[w].late
        /\ TrailingFailures(webhooks.reg[w].log) >= disable_threshold

\* ---------------------------------------------------------------------
\* C29: a Task whose pipeline ended in ERROR has had generation.failed
\* handed to trigger_webhook exactly once, and no other Task ever has.
\* ---------------------------------------------------------------------
Emitted(t, event) == Cardinality({i \in DOMAIN emitted[t] : emitted[t][i] = event})

C29_FailedEmittedOnce ==
    \A t \in TaskIds :
        /\ (pc[t] = "done" /\ tasks[t].status = ERROR) => Emitted(t, "generation.failed") = 1
        /\ tasks[t].status # ERROR => Emitted(t, "generation.failed") = 0

\* ---------------------------------------------------------------------
\* C30: an endpoint that answered that generation started has launched
\* the pipelines of the Batch it created, and from then on every Task of
\* that Batch eventually is no longer PENDING.
\* ---------------------------------------------------------------------
NonePending(r) ==
    \A i \in DOMAIN batches[endpoint[r].batch] : batches[endpoint[r].batch][i] # PENDING

C30_EveryTaskLeavesPending ==
    \A r \in Routes : endpoint[r].answered ~> (endpoint[r].launched /\ NonePending(r))

\* ---------------------------------------------------------------------
\* C31: generate_pdf_from_existing_html returns a path only if the
\* renderer exited with code 0 and the destination file exists with
\* non-zero size; a call that ended in any other way has raised.
\* ---------------------------------------------------------------------
C31_RegenerationVerified ==
    \A t \in TaskIds :
        /\ regen[t].pc = "returned" =>
              /\ regen[t].process.st = "exited"
              /\ regen[t].process.returncode = 0
              /\ regen[t].file = "nonempty"
        /\ (regen[t].pc \in {"returned", "raised"}
                /\ ~(regen[t].process.st = "exited" /\ regen[t].process.returncode = 0
                       /\ regen[t].file = "nonempty")) => regen[t].pc = "raised"

\* ---------------------------------------------------------------------
\* C32 (as claimed): when the portrait service completes the job and the
\* image is downloaded, the Task's image reference is the path returned by
\* the portrait adapter and no placeholder is synthesized; the placeholder
\* is used only when the portrait service itself fails.
\* ---------------------------------------------------------------------
C32_PlaceholderOnlyOnServiceFailure ==
    \A t \in TaskIds :
        /\ calls[t].mock # "none" => calls[t].krea = "fails"
        /\ (calls[t].krea = "completes" /\ tasks[t].image_path # None) =>
              tasks[t].image_path = "avatar"

\* ---------------------------------------------------------------------
\* C33 (as claimed): a Task whose status is COMPLETE or ERROR has no Subtask
\* in status RUNNING.
\* ---------------------------------------------------------------------
C33_NoRunningSubtaskWhenTerminal ==
    \A t \in TaskIds :
        Terminal(tasks[t].status) => \A i \in 1..5 : tasks[t].subtasks[i] # RUNNING

\* ---------------------------------------------------------------------
\* C34: a COMPLETE Task has Subtasks 1 to 4 COMPLETE, its persona, content,
\* image and assembled-document references set, Subtask 5 COMPLETE or ERROR,
\* and a rendered-document reference exactly when Subtask 5 is COMPLETE.
\* ---------------------------------------------------------------------
C34_CompleteTaskShape ==
    \A t \in TaskIds :
        tasks[t].status = COMPLETE =>
            /\ \A i \in 1..4 : tasks[t].subtasks[i] = COMPLETE
            /\ tasks[t].profile_data # None
            /\ tasks[t].cv_data # None
            /\ tasks[t].image_path # None
            /\ tasks[t].html_path # None
            /\ tasks[t].subtasks[5] \in {COMPLETE, ERROR}
            /\ (tasks[t].pdf_path # None) <=> (tasks[t].subtasks[5] = COMPLETE)

\* One Task is COMPLETE with its document rendered, another is COMPLETE with
\* Subtask 5 in ERROR and no rendered document.
C34_Witness ==
    /\ \E t \in TaskIds :
          /\ tasks[t].status = COMPLETE
          /\ tasks[t].subtasks[5] = COMPLETE
          /\ tasks[t].pdf_path # None
    /\ \E t \in TaskIds :
          /\ tasks[t].status = COMPLETE
          /\ tasks[t].subtasks[5] = ERROR
          /\ tasks[t].pdf_path = None

\* ---------------------------------------------------------------------
\* C35 (as claimed): while the renderer process of a Task is in flight, the
\* Task's Subtask 5 is RUNNING and its Subtask 4 is COMPLETE.
\* ---------------------------------------------------------------------
C35_RenderingShown ==
    \A t \in TaskIds :
        process[t].st = "running" =>
            /\ tasks[t].subtasks[5] = RUNNING
            /\ tasks[t].subtasks[4] = COMPLETE

\* ---------------------------------------------------------------------
\* C36 (as claimed): the number of slots taken from the limiter equals the
\* number of adapter calls in flight; no pipeline holds a slot while it waits
\* for another slot or while it is in placeholder synthesis, assembly or
\* rendering, and when every pipeline has finished all slots are free.
\* ---------------------------------------------------------------------
C36_SlotAccounting ==
    /\ SemaphoreSize - global_semaphore = InFlight
    /\ \A t \in TaskIds :
          /\ pc[t] \notin {"profile_call", "gather"} => InFlightOf(t) = 0
          /\ (pc[t] = "start" \/ ph2[t] = "acquire" \/ ph3[t] = "acquire") =>
                InFlightOf(t) = 0
    /\ (\A t \in TaskIds : pc[t] = "done") => global_semaphore = SemaphoreSize

\* C36 (amended): as above, with waiting read per coroutine: the coroutine
\* that waits for a slot (the pipeline before phase 1, a child of the gather)
\* holds none itself, and the pipeline waiting at the gather holds none,
\* while the sibling child may hold its own slot.
C36_SlotAccountingPerCoroutine ==
    /\ SemaphoreSize - global_semaphore = InFlight
    /\ \A t \in TaskIds :
          /\ pc[t] \notin {"profile_call", "gather"} => InFlightOf(t) = 0
          /\ pc[t] = "start" => InFlightOf(t) = 0
          /\ pc[t] = "gather" => calls[t].profile # "inflight"
          /\ ph2[t] = "acquire" => calls[t].cv # "inflight"
          /\ ph3[t] = "acquire" => calls[t].image # "inflight"
    /\ (\A t \in TaskIds : pc[t] = "done") => global_semaphore = SemaphoreSize

\* A content call that failed gave its slot back: another Task's content
\* call holds the only slot while the first Task's pipeline has ended.
C36_Witness ==
    \E t, u \in TaskIds :
        /\ calls[t].cv = "fail"
        /\ pc[t] = "done"
        /\ calls[u].cv = "inflight"
        /\ global_semaphore = SemaphoreSize - 1

\* ---------------------------------------------------------------------
\* C37 (as claimed): with two or more batches processed concurrently in one
\* process, the adapter calls in flight across all of them never exceed the
\* limiter size.
\* ---------------------------------------------------------------------
RunInFlight(r) ==
    Cardinality({t \in TaskIds : runs[r].pc[t] \in {"profile_call", "cv_call"}})

RECURSIVE SumRunsInFlight(_)
SumRunsInFlight(n) == IF n = 0 THEN 0 ELSE RunInFlight(n) + SumRunsInFlight(n - 1)

C37_GlobalCeiling == SumRunsInFlight(Len(runs)) <= SemaphoreSize

\* ---------------------------------------------------------------------
\* C38 (as claimed): with credentials taken from the environment and no
\* per-request key, generate_cv_content_v2 sends a request to the content
\* service: it never gives up without having sent one.
\* ---------------------------------------------------------------------
C38_EnvironmentKeySends ==
    (adapter.fn = "cv" /\ adapter.key = "env" /\ adapter.pc = "raised") =>
        Len(adapter.sent) >= 1

\* ---------------------------------------------------------------------
\* C39: for the limited endpoint and every client, the requests allowed
\* within any window (t - window_seconds, t] number at most max_requests;
\* the record holds allowed requests only, and a request to an endpoint
\* without a configured limit is allowed.
\* ---------------------------------------------------------------------
RECURSIVE CountWithin(_, _, _)
CountWithin(list, after, upto) ==
    IF list = <<>> THEN 0
    ELSE (IF Head(list) > after /\ Head(list) <= upto THEN 1 ELSE 0)
         + CountWithin(Tail(list), after, upto)

IsSuffix(s, list) ==
    /\ Len(s) <= Len(list)
    /\ s = SubSeq(list, Len(list) - Len(s) + 1, Len(list))

C39_WindowBound ==
    /\ \A k \in RequestKeys, t \in 0..MaxTime :
          CountWithin(rate_limiter.allowed[k],
                      t - rate_limiter.limits[LimitedEndpoint][2], t)
              <= rate_limiter.limits[LimitedEndpoint][1]
    /\ \A k \in RequestKeys : IsSuffix(rate_limiter.requests[k], rate_limiter.allowed[k])
    /\ rate_limiter.last[1] \notin DOMAIN rate_limiter.limits => rate_limiter.last[2]

\* A client was denied at its limit while, over the run, it had been
\* allowed more than max_requests requests and the other client fewer.
C39_Witness ==
    /\ rate_limiter.last = <<LimitedEndpoint, FALSE>>
    /\ \E k, j \in RequestKeys :
          /\ Len(rate_limiter.allowed[k]) > rate_limiter.limits[LimitedEndpoint][1]
          /\ Len(rate_limiter.allowed[j]) < Len(rate_limiter.allowed[k])

\* ---------------------------------------------------------------------
\* C40: get(key) returns the value of the latest set(key, ...) exactly when
\* that entry was not deleted or cleared since and its age does not exceed
\* its ttl; otherwise it returns None and no entry is left under the key;
\* hits + misses equals the number of get calls since the last clear.
\* ---------------------------------------------------------------------
Fresh(key) ==
    /\ cache.latest[key].present
    /\ cache.now - cache.latest[key].created_at <= cache.latest[key].ttl

C40_GetReturnsLatest ==
    /\ [](cache.hits + cache.misses = cache.gets)
    /\ [][cache'.gets = cache.gets + 1 =>
            LET key == cache'.last[1] IN
                IF Fresh(key)
                THEN cache'.last[2] = cache.latest[key].value
                ELSE /\ cache'.last[2] = None
                     /\ ~cache'.entries[key].present]_vars

\* A get found the latest set of its key expired and removed the entry,
\* after an earlier get had been a hit.
C40_Witness ==
    /\ cache.hits >= 1
    /\ cache.misses >= 1
    /\ \E k \in CacheKeys :
          /\ cache.last = <<k, None>>
          /\ cache.latest[k].present
          /\ ~Fresh(k)
          /\ ~cache.entries[k].present

====
